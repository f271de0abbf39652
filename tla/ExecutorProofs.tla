--------------------------- MODULE ExecutorProofs ---------------------------
(***************************************************************************)
(* The executor keeps its types and counts, loses no wakeup and is the     *)
(* queue of WorkQueue, for any number of workers and jobs and any capacity *)
(* and batch size.                                                         *)
(***************************************************************************)
EXTENDS Executor, FiniteSetTheorems, TLAPS

(* The part of TypeOK without the counters.                                *)
StateType ==
    /\ batch \in BOOLEAN
    /\ pool \subseteq Workers
    /\ phase \in {"opening", "handoff", "handoff_join", "open", "closing", "closed"}
    /\ started \subseteq pool
    /\ accepting \in BOOLEAN
    /\ jobs \in [0..(Capacity - 1) -> Jobs \cup {NoJob}]
    /\ head \in 0..(Capacity - 1)
    /\ queued \in 0..Capacity
    /\ at \in [Workers -> Places]
    /\ items \in [Workers -> Seq(Jobs)]
    /\ fate \in [Jobs -> {"new", "accepted", "refused", "done"}]

(* A batch executor has one worker, only it gathers, and only when there   *)
(* is work.  A worker holds jobs between taking and counting them.         *)
WorkerShape ==
    /\ pool # {}
    /\ batch => \A v, w \in pool : v = w
    /\ \A w \in Workers :
          /\ at[w] # "none" => w \in pool
          /\ at[w] \notin {"none", "exited"} => w \in started
          /\ at[w] \in {"gather", "regather"} => batch /\ queued # 0
          /\ at[w] \in {"run", "count"} <=> items[w] # <<>>

(* Nothing is accepted before the executor is open, a worker leaves only   *)
(* an empty queue that accepts nothing, and behind the last join nothing   *)
(* is left.                                                                *)
Opening == {"opening", "handoff", "handoff_join"}

PhaseShape ==
    /\ accepting <=> phase \in {"opening", "handoff", "open"}
    /\ phase \in {"handoff", "handoff_join"} => batch
    /\ phase \in {"handoff", "handoff_join", "open"} => started = pool
    /\ phase = "closing" /\ queued # 0 => started = pool
    /\ phase \in Opening => /\ queued = 0
                            /\ \A j \in Jobs : fate[j] = "new"
                            /\ \A w \in Workers : at[w] \notin {"run", "count"}
    /\ \A w \in Workers : at[w] = "exited" => queued = 0 /\ ~accepting
    /\ phase = "closed" => queued = 0 /\ \A w \in Workers : at[w] \in {"none", "exited"}

(* The jobs in the ring and in the hands of workers are accepted, not      *)
(* done, and all different.                                                *)
Pending == Taken(queued)

JobShape ==
    /\ \A i \in 1..queued : Pending[i] \in Jobs /\ fate[Pending[i]] = "accepted"
    /\ \A i, k \in 1..queued : Pending[i] = Pending[k] => i = k
    /\ \A w \in Workers : at[w] = "run" => \A i \in 1..Len(items[w]) :
          /\ fate[items[w][i]] = "accepted"
          /\ \A k \in 1..queued : Pending[k] # items[w][i]
          /\ \A v \in Workers \ {w} : at[v] = "run" =>
               \A k \in 1..Len(items[v]) : items[v][k] # items[w][i]

Shape == StateType /\ WorkerShape /\ PhaseShape /\ JobShape

-----------------------------------------------------------------------------
(* The ring.                                                               *)

(* The slot k places behind h.                                             *)
LEMMA Slot ==
  ASSUME NEW h \in 0..(Capacity - 1), NEW k \in 0..Capacity
  PROVE  /\ (h + k) % Capacity \in 0..(Capacity - 1)
         /\ (h + k) % Capacity = IF h + k < Capacity THEN h + k ELSE h + k - Capacity
  <1> Capacity \in Nat \ {0} BY ExecutorAssumption
  <1> QED BY SMT

LEMMA PendingSlot ==
  ASSUME StateType, NEW i \in 1..queued
  PROVE  /\ (head + i - 1) % Capacity \in 0..(Capacity - 1)
         /\ (head + i - 1) % Capacity =
              IF head + i - 1 < Capacity THEN head + i - 1 ELSE head + i - 1 - Capacity
  <1>1. Capacity \in Nat /\ head \in 0..(Capacity - 1) /\ queued \in 0..Capacity
    BY ExecutorAssumption DEF StateType
  <1>2. i - 1 \in 0..Capacity BY <1>1
  <1>3. head + (i - 1) = head + i - 1 BY <1>1
  <1> QED BY <1>1, <1>2, <1>3, Slot

(* Behind a submission the ring holds one job more, at the end.            *)
LEMMA PendingOffered ==
  ASSUME StateType, queued < Capacity, NEW j \in Jobs,
         jobs' = [jobs EXCEPT ![TailSlot] = j], queued' = queued + 1, head' = head
  PROVE  /\ TailSlot \in 0..(Capacity - 1)
         /\ \A i \in 1..queued : Pending'[i] = Pending[i]
         /\ Pending'[queued + 1] = j
  <1>1. Capacity \in Nat /\ head \in 0..(Capacity - 1) /\ queued \in 0..Capacity
    BY ExecutorAssumption DEF StateType
  <1>2. /\ TailSlot \in 0..(Capacity - 1)
        /\ TailSlot = IF head + queued < Capacity THEN head + queued ELSE head + queued - Capacity
    BY <1>1, Slot DEF TailSlot
  <1>3. \A i \in 1..(queued + 1) : Pending'[i] = jobs'[(head + i - 1) % Capacity]
    BY <1>1 DEF Pending, Taken
  <1>4. ASSUME NEW i \in 1..queued
        PROVE  Pending'[i] = Pending[i]
    <2>1. (head + i - 1) % Capacity # TailSlot
      BY <1>1, <1>2, PendingSlot
    <2>2. (head + i - 1) % Capacity \in 0..(Capacity - 1)
      BY PendingSlot
    <2>3. Pending[i] = jobs[(head + i - 1) % Capacity]
      BY DEF Pending, Taken
    <2> QED BY <1>1, <1>3, <2>1, <2>2, <2>3 DEF StateType
  <1>5. Pending'[queued + 1] = j
    <2>1. head + (queued + 1) - 1 = head + queued BY <1>1
    <2> QED BY <1>1, <1>2, <1>3, <2>1 DEF StateType, TailSlot
  <1> QED BY <1>2, <1>4, <1>5

(* A worker takes the first n jobs, the others move up.                    *)
LEMMA PendingTaken ==
  ASSUME StateType, NEW w \in Workers, NEW n \in 1..queued, Take(w, n), jobs' = jobs
  PROVE  /\ head' \in 0..(Capacity - 1) /\ queued' \in 0..Capacity
         /\ Len(items'[w]) = n
         /\ \A i \in 1..n : items'[w][i] = Pending[i]
         /\ \A i \in 1..queued' : n + i \in 1..queued /\ Pending'[i] = Pending[n + i]
  <1>1. Capacity \in Nat /\ head \in 0..(Capacity - 1) /\ queued \in 0..Capacity
    BY ExecutorAssumption DEF StateType
  <1>2. head' = (head + n) % Capacity /\ queued' = queued - n
    BY DEF Take
  <1>3. /\ head' \in 0..(Capacity - 1)
        /\ head' = IF head + n < Capacity THEN head + n ELSE head + n - Capacity
    <2>1. n \in 0..Capacity BY <1>1
    <2> QED BY <1>1, <1>2, <2>1, Slot
  <1>4. items'[w] = Taken(n) BY DEF Take, StateType
  <1>5. Len(items'[w]) = n /\ \A i \in 1..n : items'[w][i] = Pending[i]
    BY <1>1, <1>4 DEF Taken, Pending
  <1>6. ASSUME NEW i \in 1..queued'
        PROVE  n + i \in 1..queued /\ Pending'[i] = Pending[n + i]
    <2>1. n + i \in 1..queued BY <1>1, <1>2
    <2>2. (head' + i - 1) % Capacity = IF head' + i - 1 < Capacity THEN head' + i - 1
                                       ELSE head' + i - 1 - Capacity
      <3>1. i - 1 \in 0..Capacity BY <1>1, <1>2
      <3>2. head' + (i - 1) = head' + i - 1 BY <1>1, <1>3
      <3> QED BY <1>1, <1>3, <3>1, <3>2, Slot
    <2>3. (head + (n + i) - 1) % Capacity =
            IF head + (n + i) - 1 < Capacity THEN head + (n + i) - 1
            ELSE head + (n + i) - 1 - Capacity
      BY <2>1, PendingSlot
    <2>4. (head' + i - 1) % Capacity = (head + (n + i) - 1) % Capacity
      BY <1>1, <1>2, <1>3, <2>1, <2>2, <2>3
    <2>5. Pending'[i] = jobs'[(head' + i - 1) % Capacity]
      BY DEF Pending, Taken
    <2>6. Pending[n + i] = jobs[(head + (n + i) - 1) % Capacity]
      BY <2>1 DEF Pending, Taken
    <2> QED BY <2>1, <2>4, <2>5, <2>6
  <1>7. queued' \in 0..Capacity BY <1>1, <1>2
  <1> QED BY <1>3, <1>5, <1>6, <1>7

-----------------------------------------------------------------------------
(* What the steps do.                                                      *)

(* A wakeup moves sleepers to where they look at the queue again.          *)
Roused ==
    /\ at' \in [Workers -> Places]
    /\ \A w \in Workers : \/ at'[w] = at[w]
                          \/ at[w] = "wait" /\ at'[w] = "lock"
                          \/ at[w] = "gather" /\ at'[w] = "regather"

LEMMA BroadcastRouses ==
  ASSUME StateType, Broadcast
  PROVE  Roused /\ \A w \in Workers : at'[w] # "wait"
  BY DEF StateType, Broadcast, Roused, Sleeping, Places

LEMMA SignalRouses ==
  ASSUME StateType, Signal
  PROVE  Roused
  BY DEF StateType, Signal, Roused, Sleeping, Places

(* Open, close and handoff stop the queue and wake everybody.              *)
Stops ==
    /\ \/ phase = "opening" /\ phase' = "closing"
       \/ phase = "handoff" /\ phase' = "handoff_join"
       \/ phase = "open" /\ phase' = "closing"
    /\ accepting' = FALSE
    /\ Broadcast
    /\ UNCHANGED <<batch, pool, ring, counters, started, items, fate>>

Refuses(j) ==
    /\ phase \in {"open", "closing", "closed"}
    /\ fate[j] = "new" /\ fate' = [fate EXCEPT ![j] = "refused"]
    /\ rejected' \in {rejected, rejected + 1}
    /\ UNCHANGED <<batch, pool, phase, accepting, ring, active, submitted, completed, threads>>

Accepts(j) ==
    /\ phase = "open" /\ queued < Capacity
    /\ fate[j] = "new" /\ fate' = [fate EXCEPT ![j] = "accepted"]
    /\ jobs' = [jobs EXCEPT ![TailSlot] = j]
    /\ queued' = queued + 1
    /\ submitted' = submitted + 1
    /\ Signal
    /\ UNCHANGED <<batch, pool, phase, accepting, head, active, completed, rejected, started,
                   items>>

Takes(w, n) ==
    /\ at[w] \in {"lock", "gather", "regather"} /\ (at[w] = "lock" \/ batch)
    /\ n <= MaxBatch
    /\ Take(w, n)
    /\ UNCHANGED <<batch, pool, phase, accepting, jobs, submitted, completed, rejected,
                   started, fate>>

(* A worker goes to sleep, leaves or wakes up by itself.                   *)
Moves(w, place) ==
    /\ \/ at[w] = "lock" /\ place = "wait" /\ queued = 0
       \/ at[w] = "lock" /\ place = "exited" /\ queued = 0 /\ ~accepting
       \/ at[w] = "lock" /\ place = "gather" /\ queued # 0 /\ batch
       \/ at[w] = "regather" /\ place = "gather"
       \/ at[w] = "wait" /\ place = "lock"
       \/ at[w] = "gather" /\ place = "regather"
    /\ at' = [at EXCEPT ![w] = place]
    /\ UNCHANGED <<batch, pool, phase, accepting, ring, counters, started, items, fate>>

LEMMA SubmitEffect ==
  ASSUME Shape, NEW j \in Jobs, TrySubmit(j)
  PROVE  Refuses(j) \/ Accepts(j)
  <1>1. CASE phase = "closed" \/ Full
    BY <1>1 DEF TrySubmit, Refuses, ring, threads, Shape, StateType
  <1>2. CASE ~(phase = "closed" \/ Full)
    <2>1. phase = "open" /\ queued < Capacity
      BY <1>2, ExecutorAssumption DEF TrySubmit, Full, Shape, StateType, PhaseShape
    <2> QED BY <1>2, <2>1 DEF TrySubmit, Accepts
  <1> QED BY <1>1, <1>2

LEMMA WorkerEffect ==
  ASSUME Shape, NEW w \in Workers,
         WorkerLock(w) \/ Regather(w) \/ GatherTimeout(w) \/ SpuriousWakeup(w)
  PROVE  (\E n \in 1..queued : Takes(w, n)) \/ \E place \in Places : Moves(w, place)
  <1>1. /\ queued \in 0..Capacity /\ Capacity \in Nat /\ MaxBatch \in 1..Capacity
        /\ batch \in BOOLEAN /\ at \in [Workers -> Places]
    BY ExecutorAssumption DEF Shape, StateType
  <1>2. queued # 0 => BatchSize \in 1..queued /\ BatchSize <= MaxBatch
    BY <1>1 DEF BatchSize
  <1>3. queued # 0 => 1 \in 1..queued /\ 1 <= MaxBatch
    BY <1>1
  <1>4. at[w] \in {"gather", "regather"} => batch /\ queued # 0
    BY DEF Shape, WorkerShape
  <1>5. CASE WorkerLock(w)
    <2>1. CASE queued = 0 /\ accepting /\ at' = [at EXCEPT ![w] = "wait"]
               /\ UNCHANGED <<head, queued, active, items>>
      <3>1. Moves(w, "wait") BY <1>5, <2>1 DEF WorkerLock, Moves, ring, counters
      <3> QED BY <3>1 DEF Places
    <2>2. CASE Leaves /\ at' = [at EXCEPT ![w] = "exited"]
               /\ UNCHANGED <<head, queued, active, items>>
      <3>1. Moves(w, "exited") BY <1>5, <2>2 DEF WorkerLock, Moves, ring, counters, Leaves
      <3> QED BY <3>1 DEF Places
    <2>3. CASE queued # 0 /\ Take(w, IF batch THEN BatchSize ELSE 1)
      <3>1. CASE batch
        <4>1. Takes(w, BatchSize) BY <1>2, <1>5, <2>3, <3>1 DEF WorkerLock, Takes
        <4> QED BY <4>1, <1>2, <2>3
      <3>2. CASE ~batch
        <4>1. Takes(w, 1) BY <1>3, <1>5, <2>3, <3>2 DEF WorkerLock, Takes
        <4> QED BY <4>1, <1>3, <2>3
      <3> QED BY <3>1, <3>2
    <2>4. CASE queued # 0 /\ batch /\ at' = [at EXCEPT ![w] = "gather"]
               /\ UNCHANGED <<head, queued, active, items>>
      <3>1. Moves(w, "gather") BY <1>5, <2>4 DEF WorkerLock, Moves, ring, counters
      <3> QED BY <3>1 DEF Places
    <2> QED BY <1>5, <2>1, <2>2, <2>3, <2>4 DEF WorkerLock
  <1>6. CASE Regather(w)
    <2>1. CASE accepting /\ queued < MaxBatch
      <3>1. Moves(w, "gather") BY <1>6, <2>1 DEF Regather, Moves, ring, counters
      <3> QED BY <3>1 DEF Places
    <2>2. CASE ~(accepting /\ queued < MaxBatch)
      <3>1. Takes(w, BatchSize) BY <1>2, <1>4, <1>6, <2>2 DEF Regather, Takes
      <3> QED BY <3>1, <1>2, <1>4, <1>6 DEF Regather
    <2> QED BY <2>1, <2>2
  <1>7. CASE GatherTimeout(w)
    <2>1. Takes(w, BatchSize) BY <1>2, <1>4, <1>7 DEF GatherTimeout, Takes
    <2> QED BY <2>1, <1>2, <1>4, <1>7 DEF GatherTimeout
  <1>8. CASE SpuriousWakeup(w)
    <2>1. CASE at[w] = "wait"
      <3>1. Moves(w, "lock") BY <1>1, <1>8, <2>1 DEF SpuriousWakeup, Moves
      <3> QED BY <3>1 DEF Places
    <2>2. CASE at[w] = "gather"
      <3>1. Moves(w, "regather") BY <1>1, <1>8, <2>2 DEF SpuriousWakeup, Moves
      <3> QED BY <3>1 DEF Places
    <2> QED BY <1>8, <2>1, <2>2 DEF SpuriousWakeup, Sleeping
  <1> QED BY <1>5, <1>6, <1>7, <1>8

(* Every step is one of these.                                             *)
Effect ==
    \/ \E w \in Workers : CreateThread(w)
    \/ Stops
    \/ HandoffJoin
    \/ \E j \in Jobs : Refuses(j)
    \/ \E j \in Jobs : Accepts(j)
    \/ \E w \in Workers, n \in 1..queued : Takes(w, n)
    \/ \E w \in Workers, place \in Places : Moves(w, place)
    \/ \E w \in Workers : Run(w)
    \/ \E w \in Workers : Count(w)
    \/ Joined
    \/ UNCHANGED vars

LEMMA StepEffect ==
  ASSUME Shape, [Next]_vars
  PROVE  Effect
  <1>1. CASE CreateFails \/ Handoff \/ Close
    BY <1>1 DEF CreateFails, Handoff, Close, Stops, Effect
  <1>2. CASE \E j \in Jobs : TrySubmit(j)
    BY <1>2, SubmitEffect DEF Effect
  <1>3. CASE \E w \in Workers : WorkerStep(w) \/ SpuriousWakeup(w)
    <2> PICK w \in Workers : WorkerStep(w) \/ SpuriousWakeup(w) BY <1>3
    <2>1. CASE Run(w) \/ Count(w) BY <2>1 DEF Effect
    <2>2. CASE WorkerLock(w) \/ Regather(w) \/ GatherTimeout(w) \/ SpuriousWakeup(w)
      BY <2>2, WorkerEffect DEF Effect
    <2> QED BY <2>1, <2>2 DEF WorkerStep
  <1>4. CASE Finished \/ UNCHANGED vars
    BY <1>4 DEF Finished, Effect
  <1> QED BY <1>1, <1>2, <1>3, <1>4 DEF Next, Effect

-----------------------------------------------------------------------------
(* Every step keeps the shape.                                             *)

(* Types.                                                                  *)
LEMMA TypeStep ==
  ASSUME Shape, Effect
  PROVE  StateType'
  <1> USE DEF Shape, StateType
  <1>1. CASE \E w \in Workers : CreateThread(w)
    BY <1>1 DEF CreateThread, Places, ring, counters
  <1>2. CASE Stops
    <2>1. Roused BY <1>2, BroadcastRouses DEF Stops
    <2> QED BY <1>2, <2>1 DEF Stops, Roused, ring, counters
  <1>3. CASE HandoffJoin
    BY <1>3 DEF HandoffJoin, Places, ring, counters
  <1>4. CASE \E j \in Jobs : Refuses(j)
    BY <1>4 DEF Refuses, ring, threads
  <1>5. CASE \E j \in Jobs : Accepts(j)
    <2> PICK j \in Jobs : Accepts(j) BY <1>5
    <2>1. Roused BY SignalRouses DEF Accepts
    <2>2. TailSlot \in 0..(Capacity - 1) BY PendingOffered DEF Accepts
    <2> QED BY <2>1, <2>2, ExecutorAssumption DEF Accepts, Roused
  <1>6. CASE \E w \in Workers, n \in 1..queued : Takes(w, n)
    <2> PICK w \in Workers, n \in 1..queued : Takes(w, n) BY <1>6
    <2>1. head' \in 0..(Capacity - 1) /\ queued' \in 0..Capacity
      BY PendingTaken DEF Takes
    <2>2. Taken(n) \in Seq(Jobs)
      <3>1. n \in Nat /\ queued \in Nat BY ExecutorAssumption
      <3>2. ASSUME NEW i \in 1..n PROVE jobs[(head + i - 1) % Capacity] \in Jobs
        <4>1. i \in 1..queued BY <3>1
        <4>2. Pending[i] = jobs[(head + i - 1) % Capacity] BY <4>1 DEF Pending, Taken
        <4> QED BY <4>1, <4>2 DEF JobShape
      <3> QED BY <3>1, <3>2 DEF Taken
    <2> QED BY <2>1, <2>2 DEF Takes, Take, Places
  <1>7. CASE \E w \in Workers, place \in Places : Moves(w, place)
    BY <1>7 DEF Moves, ring, counters
  <1>8. CASE \E w \in Workers : Run(w)
    BY <1>8 DEF Run, Places, ring, counters
  <1>9. CASE \E w \in Workers : Count(w)
    BY <1>9 DEF Count, Places, ring
  <1>10. CASE Joined
    BY <1>10 DEF Joined, ring, counters, threads
  <1>11. CASE UNCHANGED vars
    BY <1>11 DEF vars, ring, counters, threads
  <1> QED BY <1>1, <1>2, <1>3, <1>4, <1>5, <1>6, <1>7, <1>8, <1>9, <1>10, <1>11, Zenon DEF Effect

(* The workers.                                                            *)
LEMMA WorkerShapeStep ==
  ASSUME Shape, Effect, StateType'
  PROVE  WorkerShape'
  <1> USE DEF Shape, StateType, WorkerShape
  <1>1. CASE \E w \in Workers : CreateThread(w)
    BY <1>1 DEF PhaseShape, Opening, CreateThread, ring, counters
  <1>2. CASE Stops
    <2>1. Roused BY <1>2, BroadcastRouses DEF Stops
    <2> QED BY <1>2, <2>1 DEF Stops, Roused, ring, counters
  <1>3. CASE HandoffJoin
    BY <1>3 DEF PhaseShape, Opening, HandoffJoin, ring, counters
  <1>4. CASE \E j \in Jobs : Refuses(j)
    BY <1>4 DEF Refuses, ring, threads
  <1>5. CASE \E j \in Jobs : Accepts(j)
    <2> PICK j \in Jobs : Accepts(j) BY <1>5
    <2>1. Roused BY SignalRouses DEF Accepts
    <2>2. queued' # 0 BY ExecutorAssumption DEF Accepts
    <2>3. UNCHANGED <<batch, pool, started, items>> BY DEF Accepts
    <2> QED BY <2>1, <2>2, <2>3 DEF Roused
  <1>6. CASE \E w \in Workers, n \in 1..queued : Takes(w, n)
    <2> PICK w \in Workers, n \in 1..queued : Takes(w, n) BY <1>6
    <2>1. items' = [items EXCEPT ![w] = Taken(n)] /\ at' = [at EXCEPT ![w] = "run"]
          /\ UNCHANGED <<batch, pool, started>>
      BY DEF Takes, Take
    <2>2. Len(items'[w]) = n BY PendingTaken DEF Takes
    <2>3. items'[w] # <<>> BY <2>2, ExecutorAssumption
    <2>4. ASSUME NEW v \in Workers, at[v] \in {"gather", "regather"} PROVE v = w
      <3>1. batch /\ v \in pool BY <2>4
      <3>2. w \in pool BY DEF Takes
      <3> QED BY <3>1, <3>2
    <2> QED BY <2>1, <2>3, <2>4 DEF Takes
  <1>7. CASE \E w \in Workers, place \in Places : Moves(w, place)
    BY <1>7 DEF Moves, ring, counters
  <1>8. CASE \E w \in Workers : Run(w)
    BY <1>8 DEF Run, ring, counters
  <1>9. CASE \E w \in Workers : Count(w)
    BY <1>9 DEF Count, ring
  <1>10. CASE Joined
    BY <1>10 DEF Joined, ring, counters, threads
  <1>11. CASE UNCHANGED vars
    BY <1>11 DEF vars, ring, counters, threads
  <1> QED BY <1>1, <1>2, <1>3, <1>4, <1>5, <1>6, <1>7, <1>8, <1>9, <1>10, <1>11, Zenon DEF Effect

(* The phases.                                                             *)
LEMMA PhaseShapeStep ==
  ASSUME Shape, Effect, StateType'
  PROVE  PhaseShape'
  <1> USE DEF Shape, StateType, WorkerShape, PhaseShape, Opening
  <1>1. CASE \E w \in Workers : CreateThread(w)
    BY <1>1 DEF CreateThread, ring, counters
  <1>2. CASE Stops
    <2>1. Roused BY <1>2, BroadcastRouses DEF Stops
    <2> QED BY <1>2, <2>1 DEF Stops, Roused, ring, counters
  <1>3. CASE HandoffJoin
    BY <1>3 DEF HandoffJoin, ring, counters
  <1>4. CASE \E j \in Jobs : Refuses(j)
    BY <1>4 DEF Refuses, ring, threads
  <1>5. CASE \E j \in Jobs : Accepts(j)
    <2> PICK j \in Jobs : Accepts(j) BY <1>5
    <2>1. Roused BY SignalRouses DEF Accepts
    <2> QED BY <2>1, ExecutorAssumption DEF Accepts, Roused
  <1>6. CASE \E w \in Workers, n \in 1..queued : Takes(w, n)
    <2> PICK w \in Workers, n \in 1..queued : Takes(w, n) BY <1>6
    <2>1. queued' = queued - n /\ at' = [at EXCEPT ![w] = "run"] /\ queued # 0
          /\ UNCHANGED <<batch, pool, started, phase, accepting, fate>>
      BY ExecutorAssumption DEF Takes, Take
    <2> QED BY <2>1 DEF Takes
  <1>7. CASE \E w \in Workers, place \in Places : Moves(w, place)
    BY <1>7 DEF Moves, ring, counters
  <1>8. CASE \E w \in Workers : Run(w)
    BY <1>8 DEF Run, ring, counters
  <1>9. CASE \E w \in Workers : Count(w)
    BY <1>9 DEF Count, ring
  <1>10. CASE Joined
    BY <1>10 DEF Joined, ring, counters, threads
  <1>11. CASE UNCHANGED vars
    BY <1>11 DEF vars, ring, counters, threads
  <1> QED BY <1>1, <1>2, <1>3, <1>4, <1>5, <1>6, <1>7, <1>8, <1>9, <1>10, <1>11, Zenon DEF Effect

(* The jobs.                                                               *)
LEMMA JobsKept ==
  ASSUME Shape, StateType', UNCHANGED ring,
         \A w \in Workers : at'[w] = "run" => at[w] = "run" /\ items'[w] = items[w],
         \A j \in Jobs : fate[j] = "accepted" => fate'[j] = "accepted"
  PROVE  JobShape'
  <1>1. Pending' = Pending /\ queued' = queued BY DEF Pending, Taken, ring
  <1>2. \A w \in Workers : items[w] \in Seq(Jobs) BY DEF Shape, StateType
  <1>3. \A w \in Workers : \A i \in 1..Len(items[w]) : items[w][i] \in Jobs BY <1>2
  <1> QED BY <1>1, <1>3 DEF Shape, JobShape

LEMMA JobsOffered ==
  ASSUME Shape, StateType', NEW j \in Jobs, Accepts(j)
  PROVE  JobShape'
  <1>1. /\ \A i \in 1..queued : Pending'[i] = Pending[i]
        /\ Pending'[queued + 1] = j
    BY PendingOffered DEF Accepts, Shape
  <1>2. queued \in Nat /\ queued' = queued + 1
    BY ExecutorAssumption DEF Accepts, Shape, StateType
  <1>3. \A i \in 1..queued' : i \in 1..queued \/ i = queued + 1 BY <1>2
  <1>4. \A k \in Jobs : fate'[k] = (IF k = j THEN "accepted" ELSE fate[k])
    BY DEF Accepts, Shape, StateType
  <1>5. \A w \in Workers : /\ items'[w] = items[w]
                           /\ at'[w] = "run" => at[w] = "run"
    <2>1. Roused BY SignalRouses DEF Accepts, Shape
    <2> QED BY <2>1 DEF Accepts, Roused
  <1>6. fate[j] = "new" BY DEF Accepts
  <1>7. \A w \in Workers : \A i \in 1..Len(items[w]) : items[w][i] \in Jobs
    BY DEF Shape, StateType
  <1>8. /\ \A i \in 1..queued' : Pending'[i] \in Jobs /\ fate'[Pending'[i]] = "accepted"
        /\ \A i, k \in 1..queued' : Pending'[i] = Pending'[k] => i = k
    BY <1>1, <1>3, <1>4, <1>6 DEF Shape, JobShape
  <1>9. ASSUME NEW w \in Workers, at'[w] = "run", NEW i \in 1..Len(items'[w])
        PROVE  /\ fate'[items'[w][i]] = "accepted"
               /\ \A k \in 1..queued' : Pending'[k] # items'[w][i]
               /\ \A v \in Workers \ {w} : at'[v] = "run" =>
                     \A k \in 1..Len(items'[v]) : items'[v][k] # items'[w][i]
    <2>1. at[w] = "run" /\ items'[w] = items[w] /\ items[w][i] \in Jobs BY <1>5, <1>7, <1>9
    <2>2. fate[items[w][i]] = "accepted" BY <1>9, <2>1 DEF Shape, JobShape
    <2>3. \A k \in 1..queued' : Pending'[k] # items'[w][i]
      BY <1>1, <1>3, <1>6, <1>9, <2>1, <2>2 DEF Shape, JobShape
    <2> QED BY <1>4, <1>5, <1>9, <2>1, <2>2, <2>3 DEF Shape, JobShape
  <1> QED BY <1>8, <1>9 DEF JobShape

LEMMA JobsTaken ==
  ASSUME Shape, StateType', NEW w \in Workers, NEW n \in 1..queued, Takes(w, n)
  PROVE  JobShape'
  <1>1. /\ Len(items'[w]) = n
        /\ \A i \in 1..n : items'[w][i] = Pending[i]
        /\ \A i \in 1..queued' : n + i \in 1..queued /\ Pending'[i] = Pending[n + i]
    BY PendingTaken DEF Takes, Shape
  <1>2. queued \in Nat /\ n \in Nat /\ queued' \in Nat
    BY ExecutorAssumption DEF Shape, StateType
  <1>3. \A i \in 1..n : i \in 1..queued BY <1>2
  <1>4. fate' = fate /\ \A v \in Workers \ {w} : at'[v] = at[v] /\ items'[v] = items[v]
    BY DEF Takes, Take, Shape, StateType
  <1>5. \A i \in 1..queued : Pending[i] \in Jobs /\ fate[Pending[i]] = "accepted"
    BY DEF Shape, JobShape
  <1>6. \A i, k \in 1..queued : Pending[i] = Pending[k] => i = k
    BY DEF Shape, JobShape
  <1>7. \A i, k \in 1..queued' : Pending'[i] = Pending'[k] => i = k
    <2> TAKE i, k \in 1..queued'
    <2> HAVE Pending'[i] = Pending'[k]
    <2>1. n + i = n + k BY <1>1, <1>6
    <2> QED BY <2>1, <1>2
  <1>8. \A i \in 1..n, k \in 1..queued' : Pending'[k] # items'[w][i]
    <2> TAKE i \in 1..n, k \in 1..queued'
    <2>1. n + k \in 1..queued /\ i \in 1..queued /\ n + k # i BY <1>1, <1>2, <1>3
    <2> QED BY <1>1, <1>6, <2>1
  <1>9. \A v \in Workers \ {w} : at[v] = "run" => \A i \in 1..Len(items[v]) :
          /\ fate[items[v][i]] = "accepted"
          /\ \A k \in 1..queued : Pending[k] # items[v][i]
          /\ \A u \in Workers \ {v, w} : at[u] = "run" =>
               \A k \in 1..Len(items[u]) : items[u][k] # items[v][i]
    BY DEF Shape, JobShape
  <1>10. ASSUME NEW v \in Workers, at'[v] = "run", NEW i \in 1..Len(items'[v])
         PROVE  /\ fate'[items'[v][i]] = "accepted"
                /\ \A k \in 1..queued' : Pending'[k] # items'[v][i]
                /\ \A u \in Workers \ {v} : at'[u] = "run" =>
                      \A k \in 1..Len(items'[u]) : items'[u][k] # items'[v][i]
    <2>1. CASE v = w
      <3>1. i \in 1..n /\ items'[v][i] = Pending[i] /\ i \in 1..queued BY <1>1, <1>3, <1>10, <2>1
      <3>2. fate'[items'[v][i]] = "accepted" BY <1>4, <1>5, <3>1
      <3>3. \A k \in 1..queued' : Pending'[k] # items'[v][i] BY <1>8, <2>1, <3>1
      <3>4. ASSUME NEW u \in Workers \ {w}, at'[u] = "run", NEW k \in 1..Len(items'[u])
            PROVE  items'[u][k] # items'[v][i]
        <4>1. at[u] = "run" /\ items'[u] = items[u] BY <1>4, <3>4
        <4>2. Pending[i] # items[u][k] BY <1>9, <3>1, <3>4, <4>1
        <4> QED BY <3>1, <4>1, <4>2
      <3> QED BY <2>1, <3>2, <3>3, <3>4
    <2>2. CASE v # w
      <3>1. at[v] = "run" /\ items'[v] = items[v] BY <1>4, <1>10, <2>2
      <3>2. \A k \in 1..queued' : Pending'[k] # items'[v][i]
        BY <1>1, <1>9, <1>10, <2>2, <3>1
      <3>3. \A k \in 1..Len(items'[w]) : items'[w][k] # items'[v][i]
        BY <1>1, <1>3, <1>9, <1>10, <2>2, <3>1
      <3>4. \A u \in Workers \ {v, w} : at'[u] = "run" =>
               \A k \in 1..Len(items'[u]) : items'[u][k] # items'[v][i]
        BY <1>4, <1>9, <1>10, <2>2, <3>1
      <3> QED BY <1>4, <1>9, <1>10, <2>2, <3>1, <3>2, <3>3, <3>4
    <2> QED BY <2>1, <2>2
  <1>11. \A i \in 1..queued' : Pending'[i] \in Jobs /\ fate'[Pending'[i]] = "accepted"
    BY <1>1, <1>4, <1>5
  <1> QED BY <1>7, <1>10, <1>11 DEF JobShape

LEMMA JobsRun ==
  ASSUME Shape, StateType', NEW w \in Workers, Run(w)
  PROVE  JobShape'
  <1>1. Pending' = Pending /\ queued' = queued /\ items' = items
    BY DEF Run, Pending, Taken, ring
  <1>2. \A v \in Workers : at'[v] = "run" => v # w /\ at[v] = "run"
    BY DEF Run, Shape, StateType
  <1>3. at[w] = "run" BY DEF Run
  <1>4. \A j \in Jobs : (\A i \in 1..Len(items[w]) : items[w][i] # j) => fate'[j] = fate[j]
    BY DEF Run
  <1>5. \A v \in Workers : \A i \in 1..Len(items[v]) : items[v][i] \in Jobs
    BY DEF Shape, StateType
  <1> QED BY <1>1, <1>2, <1>3, <1>4, <1>5 DEF Shape, JobShape

LEMMA JobShapeStep ==
  ASSUME Shape, Effect, StateType'
  PROVE  JobShape'
  <1> USE DEF Shape, StateType
  <1>1. CASE \E w \in Workers : CreateThread(w)
    BY <1>1, JobsKept DEF CreateThread
  <1>2. CASE Stops
    <2>1. Roused BY <1>2, BroadcastRouses DEF Stops
    <2> QED BY <1>2, <2>1, JobsKept DEF Stops, Roused
  <1>3. CASE HandoffJoin
    BY <1>3, JobsKept DEF HandoffJoin
  <1>4. CASE \E j \in Jobs : Refuses(j)
    BY <1>4, JobsKept DEF Refuses, threads
  <1>5. CASE \E j \in Jobs : Accepts(j)
    BY <1>5, JobsOffered
  <1>6. CASE \E w \in Workers, n \in 1..queued : Takes(w, n)
    BY <1>6, JobsTaken
  <1>7. CASE \E w \in Workers, place \in Places : Moves(w, place)
    BY <1>7, JobsKept DEF Moves
  <1>8. CASE \E w \in Workers : Run(w)
    BY <1>8, JobsRun
  <1>9. CASE \E w \in Workers : Count(w)
    BY <1>9, JobsKept DEF Count
  <1>10. CASE Joined
    BY <1>10, JobsKept DEF Joined, threads
  <1>11. CASE UNCHANGED vars
    BY <1>11, JobsKept DEF vars, threads
  <1> QED BY <1>1, <1>2, <1>3, <1>4, <1>5, <1>6, <1>7, <1>8, <1>9, <1>10, <1>11, Zenon DEF Effect

LEMMA ShapeStep ==
  ASSUME Shape, [Next]_vars
  PROVE  Shape' /\ Effect
  <1>1. Effect BY StepEffect
  <1>2. StateType' BY <1>1, TypeStep
  <1> QED BY <1>1, <1>2, WorkerShapeStep, PhaseShapeStep, JobShapeStep DEF Shape

LEMMA ShapeInit == Init => Shape
  <1> SUFFICES ASSUME Init PROVE Shape OBVIOUS
  <1> USE ExecutorAssumption DEF Init
  <1>1. StateType BY DEF StateType, Places
  <1>2. batch => \A v, w \in pool : v = w
    <2>1. IsFiniteSet(pool) BY FS_Subset
    <2>2. batch => Cardinality(pool) = 1 OBVIOUS
    <2>3. Cardinality(pool) = 1 => \E x : pool = {x} BY <2>1, FS_Singleton
    <2> QED BY <2>2, <2>3
  <1>3. WorkerShape BY <1>1, <1>2 DEF WorkerShape
  <1>4. PhaseShape BY DEF PhaseShape, Opening
  <1>5. JobShape BY DEF JobShape
  <1> QED BY <1>1, <1>3, <1>4, <1>5 DEF Shape

LEMMA ShapeInvariant == Spec => []Shape
  <1>1. Shape /\ [Next]_vars => Shape' BY ShapeStep
  <1> QED BY <1>1, ShapeInit, PTL DEF Spec

-----------------------------------------------------------------------------
(* No wakeup is lost.                                                      *)

LEMMA AwakeGrows ==
  ASSUME StateType, NEW w \in Workers, at[w] # "lock",
         at' = [at EXCEPT ![w] = "lock"]
  PROVE  Cardinality(Awake) \in Nat /\ Cardinality(Awake') = Cardinality(Awake) + 1
  <1>1. IsFiniteSet(Awake) BY ExecutorAssumption, FS_Subset DEF Awake
  <1>2. Awake' = Awake \cup {w} /\ w \notin Awake BY DEF Awake, StateType
  <1> QED BY <1>1, <1>2, FS_AddElement, FS_CardinalityType

LEMMA AwakeShrinks ==
  ASSUME StateType, NEW w \in Workers, NEW place, at[w] = "lock", place # "lock",
         at' = [at EXCEPT ![w] = place]
  PROVE  Cardinality(Awake) \in Nat /\ Cardinality(Awake') = Cardinality(Awake) - 1
  <1>1. IsFiniteSet(Awake) BY ExecutorAssumption, FS_Subset DEF Awake
  <1>2. Awake' = Awake \ {w} /\ w \in Awake BY DEF Awake, StateType
  <1> QED BY <1>1, <1>2, FS_RemoveElement, FS_CardinalityType

(* In a batch executor nobody waits while the one worker is elsewhere.     *)
LEMMA OnlyWorker ==
  ASSUME Shape, batch, NEW w \in Workers, at[w] \notin {"none", "wait"}
  PROVE  \A v \in Workers : at[v] # "wait"
  BY DEF Shape, WorkerShape

LEMMA WakeStep ==
  ASSUME Shape, Shape', Effect, NoJobSleeps
  PROVE  NoJobSleeps'
  <1> USE DEF Shape
  <1>0. queued \in Nat /\ queued' \in Nat BY ExecutorAssumption DEF StateType
  <1>1. CASE \E w \in Workers : CreateThread(w)
    <2>1. queued' = 0 BY <1>1 DEF CreateThread, PhaseShape, Opening, ring
    <2>2. Cardinality(Awake') \in Nat
      <3>1. IsFiniteSet(Awake') BY ExecutorAssumption, FS_Subset DEF Awake
      <3> QED BY <3>1, FS_CardinalityType
    <2> QED BY <2>1, <2>2 DEF NoJobSleeps
  <1>2. CASE Stops
    BY <1>2, BroadcastRouses DEF Stops, NoJobSleeps
  <1>3. CASE HandoffJoin
    <2>1. queued' = 0 BY <1>3 DEF HandoffJoin, PhaseShape, Opening, ring
    <2>2. Cardinality(Awake') \in Nat
      <3>1. IsFiniteSet(Awake') BY ExecutorAssumption, FS_Subset DEF Awake
      <3> QED BY <3>1, FS_CardinalityType
    <2> QED BY <2>1, <2>2 DEF NoJobSleeps
  <1>4. CASE \E j \in Jobs : Refuses(j)
    BY <1>4 DEF Refuses, ring, threads, NoJobSleeps, Awake
  <1>5. CASE \E j \in Jobs : Accepts(j)
    <2> PICK j \in Jobs : Accepts(j) BY <1>5
    <2>1. CASE \A w \in Workers : at[w] \notin Sleeping
      BY <2>1 DEF Accepts, Signal, Sleeping, NoJobSleeps
    <2>2. ASSUME NEW w \in Workers, at[w] = "wait", at' = [at EXCEPT ![w] = "lock"]
          PROVE  NoJobSleeps'
      <3>1. Cardinality(Awake) \in Nat /\ Cardinality(Awake') = Cardinality(Awake) + 1
        BY <2>2, AwakeGrows
      <3>2. queued <= Cardinality(Awake) BY <2>2 DEF NoJobSleeps
      <3>3. queued' = queued + 1 BY DEF Accepts
      <3> QED BY <1>0, <3>1, <3>2, <3>3 DEF NoJobSleeps
    <2>3. ASSUME NEW w \in Workers, at[w] = "gather", at' = [at EXCEPT ![w] = "regather"]
          PROVE  NoJobSleeps'
      <3>1. batch BY <2>3 DEF WorkerShape
      <3>2. \A v \in Workers : at[v] # "wait" BY <2>3, <3>1, OnlyWorker
      <3> QED BY <2>3, <3>2 DEF NoJobSleeps, StateType
    <2> QED BY <2>1, <2>2, <2>3 DEF Accepts, Signal, Sleeping, StateType
  <1>6. CASE \E w \in Workers, n \in 1..queued : Takes(w, n)
    <2> PICK w \in Workers, n \in 1..queued : Takes(w, n) BY <1>6
    <2>1. at' = [at EXCEPT ![w] = "run"] /\ queued' = queued - n BY DEF Takes, Take
    <2>2. CASE at[w] = "lock"
      <3>1. Cardinality(Awake) \in Nat /\ Cardinality(Awake') = Cardinality(Awake) - 1
        BY <2>1, <2>2, AwakeShrinks
      <3>2. (\E v \in Workers : at'[v] = "wait") => \E v \in Workers : at[v] = "wait"
        BY <2>1 DEF StateType
      <3> QED BY <1>0, <2>1, <3>1, <3>2 DEF NoJobSleeps
    <2>3. CASE at[w] # "lock"
      <3>1. \A v \in Workers : at[v] # "wait" BY <2>3, OnlyWorker DEF Takes
      <3> QED BY <2>1, <3>1 DEF NoJobSleeps, StateType
    <2> QED BY <2>2, <2>3
  <1>7. CASE \E w \in Workers, place \in Places : Moves(w, place)
    <2> PICK w \in Workers, place \in Places : Moves(w, place) BY <1>7
    <2>1. at' = [at EXCEPT ![w] = place] /\ queued' = queued BY DEF Moves, ring
    <2>2. CASE queued = 0
      <3>1. Cardinality(Awake') \in Nat
        <4>1. IsFiniteSet(Awake') BY ExecutorAssumption, FS_Subset DEF Awake
        <4> QED BY <4>1, FS_CardinalityType
      <3> QED BY <2>1, <2>2, <3>1 DEF NoJobSleeps
    <2>3. CASE at[w] = "wait" /\ place = "lock"
      <3>1. Cardinality(Awake) \in Nat /\ Cardinality(Awake') = Cardinality(Awake) + 1
        BY <2>1, <2>3, AwakeGrows
      <3>2. queued <= Cardinality(Awake) BY <2>3 DEF NoJobSleeps
      <3> QED BY <1>0, <2>1, <3>1, <3>2 DEF NoJobSleeps
    <2>4. CASE queued # 0 /\ ~(at[w] = "wait" /\ place = "lock")
      <3>1. batch /\ at[w] \notin {"none", "wait"} /\ place # "wait"
        BY <2>4 DEF Moves, WorkerShape
      <3>2. \A v \in Workers : at[v] # "wait" BY <3>1, OnlyWorker
      <3> QED BY <2>1, <3>1, <3>2 DEF NoJobSleeps, StateType
    <2> QED BY <2>2, <2>3, <2>4
  <1>8. CASE \E w \in Workers : Run(w)
    <2>1. Awake' = Awake BY <1>8 DEF Run, Awake, StateType
    <2> QED BY <1>8, <2>1 DEF Run, NoJobSleeps, ring, StateType
  <1>9. CASE \E w \in Workers : Count(w)
    <2> PICK w \in Workers : Count(w) BY <1>9
    <2>1. Cardinality(Awake) \in Nat /\ Cardinality(Awake') = Cardinality(Awake) + 1
      BY AwakeGrows DEF Count
    <2>2. (\E v \in Workers : at'[v] = "wait") => \E v \in Workers : at[v] = "wait"
      BY DEF Count, StateType
    <2> QED BY <1>0, <2>1, <2>2 DEF Count, NoJobSleeps, ring
  <1>10. CASE Joined
    BY <1>10 DEF Joined, ring, threads, NoJobSleeps, Awake
  <1>11. CASE UNCHANGED vars
    BY <1>11 DEF vars, ring, threads, NoJobSleeps, Awake
  <1> QED BY <1>1, <1>2, <1>3, <1>4, <1>5, <1>6, <1>7, <1>8, <1>9, <1>10, <1>11, Zenon DEF Effect

(* run_worker and run_batch_worker lose no wakeup: one pthread_cond_signal *)
(* per submission is enough however many workers wait, whatever is woken   *)
(* spuriously and whoever replaces the first worker.                       *)
THEOREM NoWakeupLost == Spec => []NoJobSleeps
  <1>1. Init => NoJobSleeps BY DEF Init, NoJobSleeps
  <1>2. Shape /\ Shape' /\ [Next]_vars /\ NoJobSleeps => NoJobSleeps'
    BY ShapeStep, WakeStep
  <1> QED BY <1>1, <1>2, ShapeInvariant, PTL DEF Spec

-----------------------------------------------------------------------------
(* The counters.  active is the number of jobs the workers hold.           *)

Held(f) == {p \in Workers \X Nat : p[2] \in 1..Len(f[p[1]])}

Counts ==
    /\ IsFiniteSet(Held(items)) /\ active = Cardinality(Held(items))
    /\ completed \in Nat /\ rejected \in Nat
    /\ submitted = queued + active + completed

LEMMA HeldGrows ==
  ASSUME NEW f \in [Workers -> Seq(Jobs)], NEW w \in Workers, f[w] = <<>>,
         NEW s \in Seq(Jobs), IsFiniteSet(Held(f))
  PROVE  /\ IsFiniteSet(Held([f EXCEPT ![w] = s]))
         /\ Cardinality(Held([f EXCEPT ![w] = s])) = Cardinality(Held(f)) + Len(s)
         /\ Cardinality(Held(f)) \in Nat
  <1> DEFINE g == [f EXCEPT ![w] = s]
             new == {w} \X (1..Len(s))
  <1>1. Len(s) \in Nat OBVIOUS
  <1>2. IsFiniteSet(1..Len(s)) /\ Cardinality(1..Len(s)) = Len(s)
    <2>1. 1 \in Int /\ Len(s) \in Int BY <1>1
    <2>2. /\ IsFiniteSet(1..Len(s))
          /\ Cardinality(1..Len(s)) = IF 1 > Len(s) THEN 0 ELSE Len(s) - 1 + 1
      BY <2>1, FS_Interval
    <2> QED BY <1>1, <2>2
  <1>3. IsFiniteSet({w}) /\ Cardinality({w}) = 1 BY FS_Singleton
  <1>4. IsFiniteSet(new) /\ Cardinality(new) = Len(s)
    <2>1. /\ IsFiniteSet(new)
          /\ Cardinality(new) = Cardinality({w}) * Cardinality(1..Len(s))
      BY <1>2, <1>3, FS_Product
    <2> QED BY <1>1, <1>2, <1>3, <2>1
  <1>5. Held(g) = Held(f) \cup new
    <2>1. \A p \in Held(g) : p \in Held(f) \cup new BY DEF Held
    <2>2. \A p \in Held(f) : p \in Held(g) BY DEF Held
    <2>3. \A p \in new : p \in Held(g) BY <1>1 DEF Held
    <2> QED BY <2>1, <2>2, <2>3
  <1>6. Held(f) \cap new = {} BY DEF Held
  <1>7. Cardinality(Held(f)) \in Nat BY FS_CardinalityType
  <1>8. /\ IsFiniteSet(Held(f) \cup new)
        /\ Cardinality(Held(f) \cup new) =
             Cardinality(Held(f)) + Cardinality(new) - Cardinality(Held(f) \cap new)
    BY <1>4, FS_Union
  <1>9. Cardinality(Held(f) \cap new) = 0 BY <1>6, FS_EmptySet
  <1>10. IsFiniteSet(Held(g)) /\ Cardinality(Held(g)) = Cardinality(Held(f) \cup new)
    BY <1>5, <1>8
  <1> HIDE DEF new
  <1>11. Cardinality(Held(f) \cup new) = Cardinality(Held(f)) + Len(s)
    BY <1>1, <1>4, <1>7, <1>8, <1>9
  <1> QED BY <1>7, <1>10, <1>11

LEMMA CountsStep ==
  ASSUME Shape, Shape', Effect, Counts
  PROVE  Counts'
  <1> USE DEF Shape
  <1>0. /\ queued \in Nat /\ active \in Nat /\ completed \in Nat
        /\ items \in [Workers -> Seq(Jobs)] /\ items' \in [Workers -> Seq(Jobs)]
    BY ExecutorAssumption, FS_CardinalityType DEF StateType, Counts
  <1>1. CASE \/ \E w \in Workers : CreateThread(w)
             \/ Stops \/ HandoffJoin
             \/ \E w \in Workers, place \in Places : Moves(w, place)
             \/ \E w \in Workers : Run(w)
             \/ Joined
             \/ UNCHANGED vars
    <2>1. UNCHANGED <<items, queued, counters>>
      BY <1>1 DEF CreateThread, Stops, HandoffJoin, Moves, Run, Joined, vars, ring, threads
    <2> QED BY <2>1 DEF counters, Counts
  <1>2. CASE \E j \in Jobs : Refuses(j)
    BY <1>2 DEF Refuses, ring, threads, Counts
  <1>3. CASE \E j \in Jobs : Accepts(j)
    BY <1>0, <1>3 DEF Accepts, Counts
  <1>4. CASE \E w \in Workers, n \in 1..queued : Takes(w, n)
    <2> PICK w \in Workers, n \in 1..queued : Takes(w, n) BY <1>4
    <2>1. /\ items' = [items EXCEPT ![w] = Taken(n)]
          /\ queued' = queued - n /\ active' = active + n
          /\ UNCHANGED <<submitted, completed, rejected>>
      BY DEF Takes, Take
    <2>2. items[w] = <<>> BY DEF Takes, WorkerShape
    <2>3. Taken(n) \in Seq(Jobs) /\ Len(Taken(n)) = n
      <3>1. items'[w] = Taken(n) BY <1>0, <2>1
      <3>2. Len(items'[w]) = n BY PendingTaken DEF Takes
      <3> QED BY <1>0, <3>1, <3>2
    <2>4. /\ IsFiniteSet(Held(items')) /\ Cardinality(Held(items')) = Cardinality(Held(items)) + n
      BY <1>0, <2>1, <2>2, <2>3, HeldGrows DEF Counts
    <2> QED BY <1>0, <2>1, <2>4 DEF Counts
  <1>5. CASE \E w \in Workers : Count(w)
    <2> PICK w \in Workers : Count(w) BY <1>5
    <2>1. /\ items' = [items EXCEPT ![w] = <<>>]
          /\ active' = active - Len(items[w]) /\ completed' = completed + Len(items[w])
          /\ UNCHANGED <<queued, submitted, rejected>>
      BY DEF Count, ring
    <2>2. items = [items' EXCEPT ![w] = items[w]] /\ items'[w] = <<>> BY <1>0, <2>1
    <2>3. Held(items') \subseteq Held(items) BY <1>0, <2>1 DEF Held
    <2>4. IsFiniteSet(Held(items')) BY <2>3, FS_Subset DEF Counts
    <2>5. /\ Cardinality(Held(items)) = Cardinality(Held(items')) + Len(items[w])
          /\ Cardinality(Held(items')) \in Nat
      BY <1>0, <2>2, <2>4, HeldGrows
    <2>6. Len(items[w]) \in Nat BY <1>0
    <2>7. active = Cardinality(Held(items)) /\ submitted = queued + active + completed
          /\ rejected \in Nat
      BY DEF Counts
    <2>8. active' = Cardinality(Held(items')) BY <2>1, <2>5, <2>6, <2>7
    <2>9. submitted' = queued' + active' + completed' /\ completed' \in Nat
      BY <1>0, <2>1, <2>6, <2>7
    <2> QED BY <2>1, <2>4, <2>7, <2>8, <2>9 DEF Counts
  <1> QED BY <1>1, <1>2, <1>3, <1>4, <1>5, Zenon DEF Effect

(* Types, and the balance of executor_snapshot: every accepted job is      *)
(* counted once, as waiting, active or completed.                          *)
THEOREM TypeCorrect == Spec => []TypeOK
  <1>1. Init => Counts
    <2> SUFFICES ASSUME Init PROVE Counts OBVIOUS
    <2>1. Held(items) = {} BY DEF Init, Held
    <2> QED BY <2>1, FS_EmptySet DEF Init, Counts
  <1>2. Shape /\ Shape' /\ [Next]_vars /\ Counts => Counts'
    BY ShapeStep, CountsStep
  <1>3. Shape /\ Counts => TypeOK
    <2> SUFFICES ASSUME Shape, Counts PROVE TypeOK OBVIOUS
    <2>1. active \in Nat BY FS_CardinalityType DEF Counts
    <2>2. queued \in Nat BY ExecutorAssumption DEF Shape, StateType
    <2>3. submitted \in Nat BY <2>1, <2>2 DEF Counts
    <2> QED BY <2>1, <2>3 DEF Shape, StateType, Counts, TypeOK
  <1> QED BY <1>1, <1>2, <1>3, ShapeInvariant, PTL DEF Spec

-----------------------------------------------------------------------------
(* The executor implements WorkQueue.                                      *)

Done == {j \in Jobs : fate[j] = "done"}

RunsKept ==
    \A w \in Workers : /\ at'[w] = "run" <=> at[w] = "run"
                       /\ at[w] = "run" => items'[w] = items[w]

(* The jobs of the workers that run, given where they are.                 *)
RunningOf(a, f) == UNION {{f[w][i] : i \in 1..Len(f[w])} : w \in {v \in Workers : a[v] = "run"}}

LEMMA RunningFacts ==
  ASSUME NEW a, NEW f
  PROVE  \A j : j \in RunningOf(a, f) <=>
           \E w \in Workers : a[w] = "run" /\ \E i \in 1..Len(f[w]) : f[w][i] = j
  BY DEF RunningOf

LEMMA RunningNow ==
  RunningJobs = RunningOf(at, items) /\ RunningJobs' = RunningOf(at', items')
  BY DEF RunningJobs, RunningOf

LEMMA RunningKept ==
  ASSUME RunsKept
  PROVE  RunningJobs' = RunningJobs
  <1>1. \A j : j \in RunningOf(at, items) <=> j \in RunningOf(at', items')
    <2> TAKE j
    <2>1. j \in RunningOf(at, items) <=>
            \E w \in Workers : at[w] = "run" /\ \E i \in 1..Len(items[w]) : items[w][i] = j
      BY RunningFacts
    <2>2. j \in RunningOf(at', items') <=>
            \E w \in Workers : at'[w] = "run" /\ \E i \in 1..Len(items'[w]) : items'[w][i] = j
      BY RunningFacts
    <2>3. \A w \in Workers : at[w] = "run" => at'[w] = "run" /\ items'[w] = items[w]
      BY DEF RunsKept
    <2>4. \A w \in Workers : at'[w] = "run" => at[w] = "run" /\ items'[w] = items[w]
      BY DEF RunsKept
    <2>5. ASSUME j \in RunningOf(at, items) PROVE j \in RunningOf(at', items')
      <3> PICK w \in Workers : at[w] = "run" /\ \E i \in 1..Len(items[w]) : items[w][i] = j
        BY <2>1, <2>5
      <3>1. at'[w] = "run" /\ \E i \in 1..Len(items'[w]) : items'[w][i] = j BY <2>3
      <3> QED BY <2>2, <3>1
    <2>6. ASSUME j \in RunningOf(at', items') PROVE j \in RunningOf(at, items)
      <3> PICK w \in Workers : at'[w] = "run" /\ \E i \in 1..Len(items'[w]) : items'[w][i] = j
        BY <2>2, <2>6
      <3>1. at[w] = "run" /\ \E i \in 1..Len(items[w]) : items[w][i] = j BY <2>4
      <3> QED BY <2>1, <3>1
    <2> QED BY <2>5, <2>6
  <1>2. RunningOf(at, items) = RunningOf(at', items') BY <1>1
  <1> QED BY <1>2, RunningNow

LEMMA QueueKept ==
  ASSUME UNCHANGED ring, RunsKept,
         \A j \in Jobs : fate'[j] = "done" <=> fate[j] = "done"
  PROVE  UNCHANGED <<Pending, RunningJobs, Done>>
  <1>1. Pending' = Pending BY DEF Pending, Taken, ring
  <1>2. Done' = Done BY DEF Done
  <1> QED BY <1>1, <1>2, RunningKept

LEMMA PendingType ==
  ASSUME Shape
  PROVE  Pending \in Seq(Jobs) /\ Len(Pending) = queued /\ queued \in Nat
  <1>1. queued \in Nat BY ExecutorAssumption DEF Shape, StateType
  <1>2. Pending = [i \in 1..queued |-> Pending[i]] BY DEF Pending, Taken
  <1>3. \A i \in 1..queued : Pending[i] \in Jobs BY DEF Shape, JobShape
  <1> QED BY <1>1, <1>2, <1>3

LEMMA QueueOffered ==
  ASSUME Shape, Shape', NEW j \in Jobs, Accepts(j)
  PROVE  Queue!Offer(j)
  <1>0. StateType /\ JobShape BY DEF Shape
  <1>1. Pending \in Seq(Jobs) /\ Len(Pending) = queued /\ queued \in Nat /\ queued' = queued + 1
    BY PendingType DEF Accepts
  <1>2. Pending' = Append(Pending, j)
    <2>1. /\ \A i \in 1..queued : Pending'[i] = Pending[i]
          /\ Pending'[queued + 1] = j
      BY <1>0, PendingOffered DEF Accepts
    <2>2. Pending' = [i \in 1..(queued + 1) |-> Pending'[i]] BY <1>1 DEF Pending, Taken
    <2> QED BY <1>1, <2>1, <2>2
  <1>3. RunsKept
    <2>1. Roused BY <1>0, SignalRouses DEF Accepts
    <2> QED BY <2>1 DEF Roused, RunsKept, Accepts
  <1>4. RunningJobs' = RunningJobs BY <1>3, RunningKept
  <1>5. Done' = Done BY <1>0 DEF Done, Accepts, StateType
  <1>6. fate[j] = "new" BY DEF Accepts
  <1>7. j \notin RunningJobs
    <2>1. j \in RunningJobs <=>
            \E w \in Workers : at[w] = "run" /\ \E i \in 1..Len(items[w]) : items[w][i] = j
      BY RunningFacts, RunningNow
    <2>2. \A w \in Workers : at[w] = "run" => \A i \in 1..Len(items[w]) : items[w][i] # j
      BY <1>0, <1>6 DEF JobShape
    <2> QED BY <2>1, <2>2
  <1>8. j \notin {Pending[i] : i \in 1..Len(Pending)}
    <2>1. \A i \in 1..queued : Pending[i] # j BY <1>0, <1>6 DEF JobShape
    <2> QED BY <1>1, <2>1
  <1>9. phase = "open" /\ phase' = "open" /\ Len(Pending) < Capacity BY <1>1 DEF Accepts
  <1> QED BY <1>2, <1>4, <1>5, <1>6, <1>7, <1>8, <1>9
          DEF Queue!Offer, Queue!Accepted, Queue!SeqRange, Pending, Done

LEMMA QueueTaken ==
  ASSUME Shape, Shape', NEW w \in Workers, NEW n \in 1..queued, Takes(w, n)
  PROVE  n \in 1..MaxBatch /\ Queue!Take(n)
  <1>1. Pending \in Seq(Jobs) /\ Len(Pending) = queued /\ queued \in Nat BY PendingType
  <1>2. n \in Nat /\ n <= Len(Pending) /\ n \in 1..MaxBatch /\ queued' = queued - n
    BY <1>1, ExecutorAssumption DEF Takes, Take
  <1>3. /\ Len(items'[w]) = n
        /\ \A i \in 1..n : items'[w][i] = Pending[i]
        /\ \A i \in 1..queued' : Pending'[i] = Pending[n + i]
    BY PendingTaken DEF Takes, Shape
  <1>4. Pending' = SubSeq(Pending, n + 1, Len(Pending))
    <2>1. Pending' = [i \in 1..(queued - n) |-> Pending'[i]] BY <1>2 DEF Pending, Taken
    <2>2. Pending' = [i \in 1..(queued - n) |-> Pending[n + i]] BY <1>2, <1>3, <2>1
    <2>3. SubSeq(Pending, n + 1, Len(Pending)) = [i \in 1..(queued - n) |-> Pending[n + i]]
      BY <1>1, <1>2
    <2> QED BY <2>2, <2>3
  <1>5. SubSeq(Pending, 1, n) = [i \in 1..n |-> Pending[i]] /\ Len(SubSeq(Pending, 1, n)) = n
    BY <1>1, <1>2
  <1>6. {SubSeq(Pending, 1, n)[i] : i \in 1..Len(SubSeq(Pending, 1, n))} = {Pending[i] : i \in 1..n}
    BY <1>5
  <1>7. RunningJobs' = RunningJobs \cup {Pending[i] : i \in 1..n}
    <2>1. at'[w] = "run" /\ at[w] # "run"
          /\ \A v \in Workers \ {w} : at'[v] = at[v] /\ items'[v] = items[v]
      BY DEF Takes, Take, Shape, StateType
    <2>2. \A j : j \in RunningOf(at', items') <=>
            j \in RunningOf(at, items) \/ \E i \in 1..n : Pending[i] = j
      <3> TAKE j
      <3>1. j \in RunningOf(at, items) <=>
              \E v \in Workers : at[v] = "run" /\ \E i \in 1..Len(items[v]) : items[v][i] = j
        BY RunningFacts
      <3>2. j \in RunningOf(at', items') <=>
              \E v \in Workers : at'[v] = "run" /\ \E i \in 1..Len(items'[v]) : items'[v][i] = j
        BY RunningFacts
      <3>3. ASSUME j \in RunningOf(at', items')
            PROVE  j \in RunningOf(at, items) \/ \E i \in 1..n : Pending[i] = j
        <4> PICK v \in Workers : at'[v] = "run" /\ \E i \in 1..Len(items'[v]) : items'[v][i] = j
          BY <3>2, <3>3
        <4>1. CASE v = w BY <4>1, <1>3
        <4>2. CASE v # w BY <4>2, <2>1, <3>1
        <4> QED BY <4>1, <4>2
      <3>4. ASSUME \E i \in 1..n : Pending[i] = j PROVE j \in RunningOf(at', items')
        BY <1>3, <2>1, <3>2, <3>4
      <3>5. ASSUME j \in RunningOf(at, items) PROVE j \in RunningOf(at', items')
        <4> PICK v \in Workers : at[v] = "run" /\ \E i \in 1..Len(items[v]) : items[v][i] = j
          BY <3>1, <3>5
        <4>1. v # w BY <2>1
        <4> QED BY <4>1, <2>1, <3>2
      <3> QED BY <3>3, <3>4, <3>5
    <2>3. \A j : j \in RunningJobs' <=> j \in RunningJobs \cup {Pending[i] : i \in 1..n}
      BY <2>2, RunningNow
    <2> QED BY <2>3
  <1>8. Done' = Done /\ phase' = phase BY DEF Takes, Done
  <1> QED BY <1>2, <1>4, <1>6, <1>7, <1>8 DEF Queue!Take, Queue!SeqRange, Pending, Done

LEMMA QueueFinished ==
  ASSUME Shape, Shape', NEW w \in Workers, Run(w)
  PROVE  \E J \in (SUBSET Jobs) \ {{}} : Queue!Finish(J)
  <1> DEFINE J == {items[w][i] : i \in 1..Len(items[w])}
  <1>1. items[w] \in Seq(Jobs) /\ items[w] # <<>> /\ at[w] = "run"
    BY DEF Run, Shape, StateType, WorkerShape
  <1>2. J \in (SUBSET Jobs) \ {{}}
    <2>1. Len(items[w]) \in Nat /\ Len(items[w]) # 0 BY <1>1
    <2>2. 1 \in 1..Len(items[w]) BY <2>1
    <2>3. J \subseteq Jobs BY <1>1
    <2>4. items[w][1] \in J BY <2>2
    <2> QED BY <2>3, <2>4
  <1>3. \A j : j \in J <=> \E i \in 1..Len(items[w]) : items[w][i] = j OBVIOUS
  <1>4. Pending' = Pending /\ phase' = phase /\ items' = items BY DEF Run, Pending, Taken, ring
  <1>5. Done' = Done \cup J
    <2>1. \A j \in Jobs : fate'[j] = IF \E i \in 1..Len(items[w]) : items[w][i] = j
                                     THEN "done" ELSE fate[j]
      BY DEF Run
    <2>2. \A j \in Jobs : fate'[j] = "done" <=> fate[j] = "done" \/ j \in J BY <1>3, <2>1
    <2> QED BY <1>2, <2>2 DEF Done
  <1>6. J \subseteq RunningJobs /\ RunningJobs' = RunningJobs \ J
    <2>1. at'[w] = "count" /\ \A v \in Workers \ {w} : at'[v] = at[v]
      BY DEF Run, Shape, StateType
    <2>2. \A v \in Workers \ {w} : at[v] = "run" =>
            \A k \in 1..Len(items[v]) : items[v][k] \notin J
      BY <1>1, <1>3 DEF Shape, JobShape
    <2> HIDE DEF J
    <2>3. ASSUME NEW j
          PROVE  /\ j \in J => j \in RunningOf(at, items)
                 /\ j \in RunningOf(at', items) <=> j \in RunningOf(at, items) /\ j \notin J
      <3>1. j \in RunningOf(at, items) <=>
              \E v \in Workers : at[v] = "run" /\ \E i \in 1..Len(items[v]) : items[v][i] = j
        BY RunningFacts
      <3>2. j \in RunningOf(at', items) <=>
              \E v \in Workers : at'[v] = "run" /\ \E i \in 1..Len(items[v]) : items[v][i] = j
        BY RunningFacts
      <3>3. j \in J => j \in RunningOf(at, items) BY <1>1, <1>3, <3>1
      <3>4. ASSUME j \in RunningOf(at', items)
            PROVE  j \in RunningOf(at, items) /\ j \notin J
        <4> PICK v \in Workers : at'[v] = "run" /\ \E i \in 1..Len(items[v]) : items[v][i] = j
          BY <3>2, <3>4
        <4>1. v # w /\ at[v] = "run" BY <2>1
        <4> QED BY <4>1, <2>2, <3>1
      <3>5. ASSUME j \in RunningOf(at, items), j \notin J
            PROVE  j \in RunningOf(at', items)
        <4> PICK v \in Workers : at[v] = "run" /\ \E i \in 1..Len(items[v]) : items[v][i] = j
          BY <3>1, <3>5
        <4>1. v # w BY <1>3, <3>5
        <4> QED BY <4>1, <2>1, <3>2
      <3> QED BY <3>3, <3>4, <3>5
    <2>4. RunningJobs = RunningOf(at, items) /\ RunningJobs' = RunningOf(at', items)
      BY <1>4, RunningNow
    <2> QED BY <2>3, <2>4
  <1> HIDE DEF J
  <1> QED BY <1>2, <1>4, <1>5, <1>6 DEF Queue!Finish, Pending, Done

(* Each step is a step of the queue or changes nothing of it.              *)
LEMMA QueueStep ==
  ASSUME Shape, Shape', Effect
  PROVE  [Queue!Next]_(Queue!qvars)
  <1>0. /\ StateType /\ WorkerShape /\ PhaseShape
        /\ at \in [Workers -> Places] /\ fate \in [Jobs -> {"new", "accepted", "refused", "done"}]
    BY DEF Shape, StateType
  <1>1. CASE \E w \in Workers : CreateThread(w)
    <2> PICK w \in Workers : CreateThread(w) BY <1>1
    <2>1. RunsKept BY <1>0 DEF CreateThread, RunsKept, PhaseShape, Opening
    <2>2. UNCHANGED <<Pending, RunningJobs, Done>> BY <2>1, QueueKept DEF CreateThread
    <2>3. phase = "opening" /\ phase' \in {"opening", "handoff", "open"} BY DEF CreateThread
    <2> QED BY <2>2, <2>3 DEF Queue!Next, Queue!Open, Queue!qvars, Pending, Done
  <1>2. CASE Stops
    <2>1. Roused BY <1>0, <1>2, BroadcastRouses DEF Stops
    <2>2. RunsKept BY <1>2, <2>1 DEF Stops, Roused, RunsKept
    <2>3. UNCHANGED <<Pending, RunningJobs, Done>> BY <1>2, <2>2, QueueKept DEF Stops
    <2>4. \/ phase = "opening" /\ phase' = "closing"
          \/ phase = "handoff" /\ phase' = "handoff_join"
          \/ phase = "open" /\ phase' = "closing"
      BY <1>2 DEF Stops
    <2> QED BY <2>3, <2>4 DEF Queue!Next, Queue!Close, Queue!qvars, Pending, Done
  <1>3. CASE HandoffJoin
    <2>1. RunsKept BY <1>0, <1>3 DEF HandoffJoin, RunsKept, PhaseShape, Opening
    <2>2. UNCHANGED <<Pending, RunningJobs, Done>> BY <1>3, <2>1, QueueKept DEF HandoffJoin
    <2>3. phase = "handoff_join" /\ phase' \in {"open", "closing"} BY <1>3 DEF HandoffJoin
    <2> QED BY <2>2, <2>3 DEF Queue!Next, Queue!Open, Queue!Close, Pending, Done
  <1>4. CASE \E j \in Jobs : Refuses(j)
    <2>1. RunsKept BY <1>4 DEF Refuses, threads, RunsKept
    <2>2. UNCHANGED <<Pending, RunningJobs, Done>> BY <1>0, <1>4, <2>1, QueueKept DEF Refuses
    <2> QED BY <1>4, <2>2 DEF Refuses, Queue!qvars, Pending, Done
  <1>5. CASE \E j \in Jobs : Accepts(j)
    BY <1>5, QueueOffered DEF Queue!Next
  <1>6. CASE \E w \in Workers, n \in 1..queued : Takes(w, n)
    BY <1>6, QueueTaken DEF Queue!Next
  <1>7. CASE \E w \in Workers, place \in Places : Moves(w, place)
    <2>1. RunsKept BY <1>0, <1>7 DEF Moves, RunsKept
    <2>2. UNCHANGED <<Pending, RunningJobs, Done>> BY <1>7, <2>1, QueueKept DEF Moves
    <2> QED BY <1>7, <2>2 DEF Moves, Queue!qvars, Pending, Done
  <1>8. CASE \E w \in Workers : Run(w)
    BY <1>8, QueueFinished DEF Queue!Next
  <1>9. CASE \E w \in Workers : Count(w)
    <2>1. RunsKept BY <1>0, <1>9 DEF Count, RunsKept
    <2>2. UNCHANGED <<Pending, RunningJobs, Done>> BY <1>9, <2>1, QueueKept DEF Count
    <2> QED BY <1>9, <2>2 DEF Count, Queue!qvars, Pending, Done
  <1>10. CASE Joined
    <2>1. RunsKept BY <1>10 DEF Joined, threads, RunsKept
    <2>2. UNCHANGED <<Pending, RunningJobs, Done>> BY <1>10, <2>1, QueueKept DEF Joined
    <2>3. queued = 0
      <3>1. queued # 0 => started = pool BY <1>0, <1>10 DEF Joined, PhaseShape
      <3>2. pool # {} /\ pool \subseteq Workers BY <1>0 DEF WorkerShape, StateType
      <3> QED BY <1>0, <1>10, <3>1, <3>2 DEF Joined, PhaseShape
    <2>4. Pending = <<>> BY <2>3, PendingType
    <2>5. \A w \in Workers : at[w] # "run" BY <1>0, <1>10 DEF Joined, WorkerShape
    <2>6. RunningJobs = {} BY <2>5, RunningFacts, RunningNow
    <2>7. phase = "closing" /\ phase' = "closed" BY <1>10 DEF Joined
    <2> QED BY <2>2, <2>4, <2>6, <2>7 DEF Queue!Next, Queue!Closed, Pending, Done
  <1>11. CASE UNCHANGED vars
    <2>1. RunsKept BY <1>11 DEF vars, threads, RunsKept
    <2>2. UNCHANGED <<Pending, RunningJobs, Done>> BY <1>11, <2>1, QueueKept DEF vars
    <2> QED BY <1>11, <2>2 DEF vars, Queue!qvars, Pending, Done
  <1> QED BY <1>1, <1>2, <1>3, <1>4, <1>5, <1>6, <1>7, <1>8, <1>9, <1>10, <1>11, Zenon DEF Effect

(* The ring, the mutex and the workers of executor_open, _open_batch,      *)
(* _try_submit and _close are the bounded first-in first-out queue of      *)
(* WorkQueue: nothing accepted is lost, overtaken or done twice.           *)
THEOREM QueueImplemented == Spec => ImplementsQueue
  <1>1. Init => Queue!Init
    <2> SUFFICES ASSUME Init PROVE Queue!Init OBVIOUS
    <2>1. Shape BY ShapeInit
    <2>2. Pending = <<>> BY <2>1, PendingType DEF Init
    <2>3. RunningJobs = {} BY RunningFacts, RunningNow DEF Init
    <2>4. Done = {} BY DEF Init, Done
    <2> QED BY <2>2, <2>3, <2>4 DEF Queue!Init, Init, Pending, Done
  <1>2. Shape /\ Shape' /\ [Next]_vars => [Queue!Next]_(Queue!qvars)
    BY ShapeStep, QueueStep
  <1> QED BY <1>1, <1>2, ShapeInvariant, PTL DEF Spec, ImplementsQueue, Queue!Spec
=============================================================================
