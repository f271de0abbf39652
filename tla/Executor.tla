------------------------------ MODULE Executor ------------------------------
(***************************************************************************)
(* The executors of the core daemon: a ring of jobs behind one mutex and   *)
(* one condition variable.  The search executor has several workers that   *)
(* take one job each; the writer executor is opened as an ordinary one     *)
(* whose worker is then replaced by a batch worker, which waits a little   *)
(* for a batch to fill.  A step is one critical section of the mutex, one  *)
(* wait, or one call of the work function.                                 *)
(***************************************************************************)
EXTENDS Integers, Sequences, FiniteSets

CONSTANTS Workers,    \* worker threads
          Jobs,       \* what callers submit, each once
          Capacity,   \* queue_capacity
          MaxBatch,   \* max_batch of a batch executor
          NoJob

ASSUME ExecutorAssumption ==
    /\ IsFiniteSet(Workers) /\ Workers # {}
    /\ Capacity \in Nat \ {0}
    /\ MaxBatch \in 1..Capacity
    /\ NoJob \notin Jobs

VARIABLES batch,      \* opened by executor_open_batch (batch_function # NULL)
          pool,       \* the worker_threads it is opened with
          phase,      \* how far open and close are
          started,    \* the threads created and not joined
          accepting, jobs, head, queued, active, submitted, completed, rejected,
          at,         \* where a worker is
          items,      \* the jobs it took
          fate        \* what became of a job, seen by its submitter

counters == <<active, submitted, completed, rejected>>
ring     == <<jobs, head, queued>>
threads  == <<started, at, items>>
vars     == <<batch, pool, phase, accepting, ring, counters, threads, fate>>

-----------------------------------------------------------------------------
(* The batch executor has one worker.                                      *)
Init ==
    /\ pool \in (SUBSET Workers) \ {{}}
    /\ batch \in (IF Cardinality(pool) = 1 THEN BOOLEAN ELSE {FALSE})
    /\ phase = "opening"
    /\ started = {}
    /\ accepting = TRUE
    /\ jobs = [i \in 0..(Capacity - 1) |-> NoJob]
    /\ head = 0 /\ queued = 0
    /\ active = 0 /\ submitted = 0 /\ completed = 0 /\ rejected = 0
    /\ at = [w \in Workers |-> "none"]
    /\ items = [w \in Workers |-> <<>>]
    /\ fate = [j \in Jobs |-> "new"]

Sleeping == {"wait", "gather"}

(* pthread_cond_broadcast and pthread_cond_signal.  A woken worker looks at *)
(* the queue again; a signal wakes one of the sleepers.                    *)
Broadcast == at' = [w \in Workers |-> IF at[w] \in Sleeping
                                      THEN IF at[w] = "wait" THEN "lock" ELSE "regather"
                                      ELSE at[w]]

(* Mutant of Signal: a worker that gathers a batch is not woken.           *)
SignalForgotten == UNCHANGED at

Signal ==
    IF \A w \in Workers : at[w] \notin Sleeping THEN UNCHANGED at
    ELSE \E w \in Workers :
            /\ at[w] \in Sleeping
            /\ at' = [at EXCEPT ![w] = IF @ = "wait" THEN "lock" ELSE "regather"]

-----------------------------------------------------------------------------
(* executor_open and executor_open_batch.                                  *)

CreateThread(w) ==
    /\ phase = "opening"
    /\ w \in pool \ started
    /\ started' = started \cup {w}
    /\ at' = [at EXCEPT ![w] = "lock"]
    /\ phase' = IF started' # pool THEN "opening"
                ELSE IF batch THEN "handoff" ELSE "open"
    /\ UNCHANGED <<batch, pool, accepting, ring, counters, items, fate>>

(* pthread_create fails: the threads already started are joined.           *)
CreateFails ==
    /\ phase = "opening"
    /\ phase' = "closing"
    /\ accepting' = FALSE
    /\ Broadcast
    /\ UNCHANGED <<batch, pool, ring, counters, started, items, fate>>

(* The ordinary worker is told to leave and joined.                        *)
Handoff ==
    /\ phase = "handoff"
    /\ phase' = "handoff_join"
    /\ accepting' = FALSE
    /\ Broadcast
    /\ UNCHANGED <<batch, pool, ring, counters, started, items, fate>>

(* Then the queue accepts and the batch worker runs, or one of the two     *)
(* allocations fails and nothing is left to join.                          *)
HandoffJoin ==
    /\ phase = "handoff_join"
    /\ \A w \in started : at[w] = "exited"
    /\ \/ /\ phase' = "open" /\ accepting' = TRUE
          /\ at' = [w \in Workers |-> IF w \in pool THEN "lock" ELSE at[w]]
          /\ UNCHANGED started
       \/ /\ phase' = "closing" /\ accepting' = FALSE
          /\ started' = {}
          /\ UNCHANGED at
    /\ UNCHANGED <<batch, pool, ring, counters, items, fate>>

-----------------------------------------------------------------------------
(* executor_try_submit and executor_try_submit_item.                       *)

(* Mutant of Full: one job too many is let in.                             *)
FullOffByOne == ~accepting \/ queued = Capacity + 1

Full == ~accepting \/ queued = Capacity

(* Mutant of TailSlot: the tail wraps one slot late.                           *)
TailSlotOffByOne == IF head + queued > Capacity THEN (head + queued) % Capacity
                ELSE (head + queued) % (Capacity + 1)

TailSlot == (head + queued) % Capacity

TrySubmit(j) ==
    /\ phase \in {"open", "closing", "closed"}
    /\ fate[j] = "new"
    /\ IF phase = "closed" \/ Full
       THEN /\ rejected' = IF phase = "closed" THEN rejected ELSE rejected + 1
            /\ fate' = [fate EXCEPT ![j] = "refused"]
            /\ UNCHANGED <<jobs, queued, submitted, at>>
       ELSE /\ jobs' = [jobs EXCEPT ![TailSlot] = j]
            /\ queued' = queued + 1
            /\ submitted' = submitted + 1
            /\ fate' = [fate EXCEPT ![j] = "accepted"]
            /\ Signal
            /\ UNCHANGED rejected
    /\ UNCHANGED <<batch, pool, phase, accepting, head, active, completed, started, items>>

-----------------------------------------------------------------------------
(* run_worker and run_batch_worker.                                        *)

Taken(n) == [i \in 1..n |-> jobs[(head + i - 1) % Capacity]]

Take(w, n) ==
    /\ items' = [items EXCEPT ![w] = Taken(n)]
    /\ head' = (head + n) % Capacity
    /\ queued' = queued - n
    /\ active' = active + n
    /\ at' = [at EXCEPT ![w] = "run"]

BatchSize == IF queued < MaxBatch THEN queued ELSE MaxBatch

(* Mutant of Leaves: queued work is abandoned.                             *)
LeavesAtOnce == ~accepting

Leaves == queued = 0 /\ ~accepting

(* The worker holds the mutex: it sleeps, leaves or takes work.  A batch   *)
(* worker gathers as long as the batch is not full.                        *)
WorkerLock(w) ==
    /\ at[w] = "lock"
    /\ \/ /\ queued = 0 /\ accepting
          /\ at' = [at EXCEPT ![w] = "wait"]
          /\ UNCHANGED <<head, queued, active, items>>
       \/ /\ Leaves
          /\ at' = [at EXCEPT ![w] = "exited"]
          /\ UNCHANGED <<head, queued, active, items>>
       \/ /\ queued # 0 /\ ~(batch /\ accepting /\ queued < MaxBatch)
          /\ Take(w, IF batch THEN BatchSize ELSE 1)
       \/ /\ queued # 0 /\ batch /\ accepting /\ queued < MaxBatch
          /\ at' = [at EXCEPT ![w] = "gather"]
          /\ UNCHANGED <<head, queued, active, items>>
    /\ UNCHANGED <<batch, pool, phase, accepting, jobs, submitted, completed, rejected,
                   started, fate>>

(* Back from pthread_cond_timedwait, woken.                                *)
Regather(w) ==
    /\ at[w] = "regather"
    /\ IF accepting /\ queued < MaxBatch
       THEN /\ at' = [at EXCEPT ![w] = "gather"]
            /\ UNCHANGED <<head, queued, active, items>>
       ELSE Take(w, BatchSize)
    /\ UNCHANGED <<batch, pool, phase, accepting, jobs, submitted, completed, rejected,
                   started, fate>>

(* Back from pthread_cond_timedwait at the deadline.                       *)
GatherTimeout(w) ==
    /\ at[w] = "gather"
    /\ Take(w, BatchSize)
    /\ UNCHANGED <<batch, pool, phase, accepting, jobs, submitted, completed, rejected,
                   started, fate>>

(* A wait may end without a signal.                                        *)
SpuriousWakeup(w) ==
    /\ at[w] \in Sleeping
    /\ at' = [at EXCEPT ![w] = IF @ = "wait" THEN "lock" ELSE "regather"]
    /\ UNCHANGED <<batch, pool, phase, accepting, ring, counters, started, items, fate>>

(* The work function, called without the mutex.                            *)
Run(w) ==
    /\ at[w] = "run"
    /\ fate' = [j \in Jobs |-> IF \E i \in 1..Len(items[w]) : items[w][i] = j
                               THEN "done" ELSE fate[j]]
    /\ at' = [at EXCEPT ![w] = "count"]
    /\ UNCHANGED <<batch, pool, phase, accepting, ring, counters, started, items>>

Count(w) ==
    /\ at[w] = "count"
    /\ active' = active - Len(items[w])
    /\ completed' = completed + Len(items[w])
    /\ items' = [items EXCEPT ![w] = <<>>]
    /\ at' = [at EXCEPT ![w] = "lock"]
    /\ UNCHANGED <<batch, pool, phase, accepting, ring, submitted, rejected, started, fate>>

-----------------------------------------------------------------------------
(* executor_close                                                          *)

(* Mutant of Close: sleepers are not told.                                 *)
CloseSilently ==
    /\ phase = "open"
    /\ phase' = "closing"
    /\ accepting' = FALSE
    /\ UNCHANGED <<batch, pool, ring, counters, threads, fate>>

Close ==
    /\ phase = "open"
    /\ phase' = "closing"
    /\ accepting' = FALSE
    /\ Broadcast
    /\ UNCHANGED <<batch, pool, ring, counters, started, items, fate>>

(* All threads joined: the state is freed.                                 *)
Joined ==
    /\ phase = "closing"
    /\ \A w \in started : at[w] = "exited"
    /\ phase' = "closed"
    /\ UNCHANGED <<batch, pool, accepting, ring, counters, threads, fate>>

(* Nothing is left to do.                                                  *)
Finished ==
    /\ phase = "closed"
    /\ \A j \in Jobs : fate[j] # "new"
    /\ UNCHANGED vars

WorkerStep(w) == WorkerLock(w) \/ Regather(w) \/ GatherTimeout(w) \/ Run(w) \/ Count(w)

Next ==
    \/ \E w \in Workers : CreateThread(w)
    \/ CreateFails \/ Handoff \/ HandoffJoin
    \/ \E j \in Jobs : TrySubmit(j)
    \/ \E w \in Workers : WorkerStep(w) \/ SpuriousWakeup(w)
    \/ Close \/ Joined \/ Finished

Spec == Init /\ [][Next]_vars

(* The scheduler runs every worker that is not asleep, work functions      *)
(* return, and whoever opens or closes the executor goes on.  The deadline *)
(* of a batch is an instant, the same after every wakeup, so the wait for  *)
(* it ends however often it is interrupted.  Nobody is obliged to submit   *)
(* or to close.                                                            *)
FairSpec ==
    /\ Spec
    /\ \A w \in Workers : /\ WF_vars(WorkerStep(w)) /\ WF_vars(CreateThread(w))
                          /\ SF_vars(GatherTimeout(w))
    /\ WF_vars(Handoff) /\ WF_vars(HandoffJoin) /\ WF_vars(Joined)

-----------------------------------------------------------------------------
(* Properties.                                                             *)

Places == {"none", "lock", "wait", "gather", "regather", "run", "count", "exited"}

(* The type of every variable; the counters of executor_snapshot count     *)
(* every accepted job once: waiting, active or completed.                  *)
TypeOK ==
    /\ batch \in BOOLEAN
    /\ pool \subseteq Workers
    /\ phase \in {"opening", "handoff", "handoff_join", "open", "closing", "closed"}
    /\ started \subseteq Workers
    /\ accepting \in BOOLEAN
    /\ jobs \in [0..(Capacity - 1) -> Jobs \cup {NoJob}]
    /\ head \in 0..(Capacity - 1)
    /\ queued \in 0..Capacity
    /\ active \in Nat /\ submitted \in Nat /\ completed \in Nat /\ rejected \in Nat
    /\ submitted = queued + active + completed
    /\ at \in [Workers -> Places]
    /\ items \in [Workers -> Seq(Jobs)]
    /\ fate \in [Jobs -> {"new", "accepted", "refused", "done"}]

(* A worker never sleeps while there is work for it: as long as one waits, *)
(* every queued job has an awake worker about to take it.  One signal per  *)
(* submission is enough, and neither the replacement of the first worker   *)
(* nor a spurious wakeup loses one.                                        *)
Awake == {w \in Workers : at[w] = "lock"}

NoJobSleeps ==
    (\E w \in Workers : at[w] = "wait") => queued <= Cardinality(Awake)

(* The executor is the bounded first-in first-out queue its callers rely   *)
(* on: nothing accepted is lost, done twice or overtaken while the ring    *)
(* wraps, and closing finishes what was accepted.                          *)
RunningJobs ==
    UNION {{items[w][i] : i \in 1..Len(items[w])} : w \in {v \in Workers : at[v] = "run"}}

Queue == INSTANCE WorkQueue WITH
    MaxTake  <- MaxBatch,
    pending  <- Taken(queued),
    running  <- RunningJobs,
    finished <- {j \in Jobs : fate[j] = "done"},
    door     <- CASE phase = "open" -> "open"
                  [] phase = "closing" -> "closing"
                  [] phase = "closed" -> "closed"
                  [] OTHER -> "shut"

ImplementsQueue == Queue!Spec

(* Accepted work is done, also when the executor is closed meanwhile.      *)
AcceptedRuns == \A j \in Jobs : fate[j] = "accepted" ~> fate[j] = "done"

(* executor_close returns: every worker leaves, and the replacement of the *)
(* first worker of a batch executor comes to an end.                       *)
CloseReturns ==
    /\ phase = "closing" ~> phase = "closed"
    /\ phase = "handoff" ~> phase \in {"open", "closed"}
=============================================================================
