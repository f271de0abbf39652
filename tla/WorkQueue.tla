----------------------------- MODULE WorkQueue ------------------------------
(***************************************************************************)
(* What an executor promises its callers: a bounded first-in first-out     *)
(* queue.  Work is accepted while the queue is open and has room, taken    *)
(* from its front in runs of at most MaxTake, and finished once.  A queue  *)
(* that is closed accepts nothing more but finishes what it accepted.      *)
(***************************************************************************)
EXTENDS Naturals, Sequences

CONSTANTS Jobs,       \* pieces of work
          Capacity,   \* how many may wait
          MaxTake     \* how many are taken at a time

VARIABLES pending,    \* accepted and not taken, oldest first
          running,    \* taken and not finished
          finished,   \* finished
          door        \* "shut", "open", "closing" or "closed"

qvars == <<pending, running, finished, door>>

SeqRange(s) == {s[i] : i \in 1..Len(s)}

Accepted == SeqRange(pending) \cup running \cup finished

Init ==
    /\ pending = <<>>
    /\ running = {}
    /\ finished = {}
    /\ door = "shut"

Offer(j) ==
    /\ door = "open"
    /\ j \notin Accepted
    /\ Len(pending) < Capacity
    /\ pending' = Append(pending, j)
    /\ UNCHANGED <<running, finished, door>>

Take(n) ==
    /\ n <= Len(pending)
    /\ running' = running \cup SeqRange(SubSeq(pending, 1, n))
    /\ pending' = SubSeq(pending, n + 1, Len(pending))
    /\ UNCHANGED <<finished, door>>

Finish(J) ==
    /\ J \subseteq running
    /\ running' = running \ J
    /\ finished' = finished \cup J
    /\ UNCHANGED <<pending, door>>

(* A queue opens before anything is offered, or never.                     *)
Open ==
    /\ door = "shut"
    /\ door' = "open"
    /\ UNCHANGED <<pending, running, finished>>

Close ==
    /\ door \in {"shut", "open"}
    /\ door' = "closing"
    /\ UNCHANGED <<pending, running, finished>>

Closed ==
    /\ door = "closing"
    /\ pending = <<>>
    /\ running = {}
    /\ door' = "closed"
    /\ UNCHANGED <<pending, running, finished>>

Next ==
    \/ \E j \in Jobs : Offer(j)
    \/ \E n \in 1..MaxTake : Take(n)
    \/ \E J \in (SUBSET Jobs) \ {{}} : Finish(J)
    \/ Open \/ Close \/ Closed

Spec == Init /\ [][Next]_qvars
=============================================================================
