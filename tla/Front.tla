------------------------------- MODULE Front --------------------------------
(***************************************************************************)
(* The front daemon: workers that each serve one client connection at a    *)
(* time.  A worker vets a request, admits it by one of two limiters, reads *)
(* its body, and either prepares passages itself or calls the core and     *)
(* waits for the answer no longer than its timeout.                        *)
(***************************************************************************)
EXTENDS Calls, Limiter

CONSTANTS Workers,
          RequestLimit, IngestLimit   \* limits of runtime_limiter, ingest_limiter

VARIABLES worker,    \* where each worker is
          runtimeLimiter, ingestLimiter,
          acked      \* the newest generation a client was told of

frontVars == <<worker, runtimeLimiter, ingestLimiter, acked>>

Idle == [pc |-> "accept", kind |-> "search", call |-> 0]

FrontInit ==
    /\ worker = [w \in Workers |-> Idle]
    /\ runtimeLimiter = Free /\ ingestLimiter = Free /\ acked = 0

Bytes == 1   \* content_length

Unmade == {n \in CallIds : call[n].stage = "none"}

(* A request that is not well formed, known, JSON or authorized, and one   *)
(* the limiter does not admit, is answered at once; it changes nothing.    *)
(* Bound: none is admitted once all the calls of the model are made.       *)
Admit(w) ==
    /\ worker[w].pc = "accept" /\ Unmade # {}
    /\ \/ /\ Admits(runtimeLimiter, RequestLimit, Bytes)
          /\ runtimeLimiter' = Acquired(runtimeLimiter, Bytes)
          /\ worker' = [worker EXCEPT ![w].pc = "body", ![w].kind = "search"]
          /\ UNCHANGED ingestLimiter
       \/ /\ Admits(ingestLimiter, IngestLimit, Bytes)
          /\ ingestLimiter' = Acquired(ingestLimiter, Bytes)
          /\ worker' = [worker EXCEPT ![w].pc = "body", ![w].kind = "ingest"]
          /\ UNCHANGED runtimeLimiter
    /\ UNCHANGED <<call, acked>>

(* Mutant of GivesBack: only requests that succeed give their place back.  *)
GivesBackOnSuccess(status) == status = 200

GivesBack(status) == TRUE

(* Every path after admission ends with the answer and the release.        *)
Answer(w, status) ==
    /\ worker' = [worker EXCEPT ![w] = Idle]
    /\ runtimeLimiter' = IF worker[w].kind # "ingest" /\ GivesBack(status)
                         THEN Released(runtimeLimiter, Bytes) ELSE runtimeLimiter
    /\ ingestLimiter' = IF worker[w].kind = "ingest" /\ GivesBack(status)
                        THEN Released(ingestLimiter, Bytes) ELSE ingestLimiter

(* The client stalls or hangs up, or memory runs out.                      *)
BodyFails(w) ==
    /\ worker[w].pc = "body"
    /\ Answer(w, 400)
    /\ UNCHANGED <<call, acked>>

(* The other requests of runtime_limiter: passages are prepared on a       *)
(* runtime opened for the request alone.                                   *)
Prepare(w) ==
    /\ worker[w].pc = "body" /\ worker[w].kind # "ingest"
    /\ \E s \in {200, 503} : Answer(w, s)
    /\ UNCHANGED <<call, acked>>

CoreRoundtrip(w) ==
    /\ worker[w].pc = "body" /\ Unmade # {}
    /\ \E i \in IF worker[w].kind = "ingest" THEN Items[Min(Unmade)] ELSE {NoItem} :
          call' = [call EXCEPT ![Min(Unmade)] =
                     [Unsent EXCEPT !.stage = "sent", !.kind = worker[w].kind,
                                    !.item = i,
                                    !.after = IF worker[w].kind = "search" THEN acked ELSE 0]]
    /\ worker' = [worker EXCEPT ![w].pc = "wait", ![w].call = Min(Unmade)]
    /\ UNCHANGED <<runtimeLimiter, ingestLimiter, acked>>

(* The core cannot be reached, or does not answer within the timeout.      *)
CoreUnavailable(w) ==
    /\ worker[w].pc \in {"body", "wait"}
    /\ Answer(w, 503)
    /\ UNCHANGED <<call, acked>>

CoreAnswers(w) ==
    /\ worker[w].pc = "wait" /\ call[worker[w].call].stage = "done"
    /\ LET c == call[worker[w].call]
       IN  /\ Answer(w, c.status)
           /\ acked' = IF c.kind = "ingest" /\ c.status = 200 /\ c.gen > acked
                       THEN c.gen ELSE acked
    /\ UNCHANGED call

FrontNext == \E w \in Workers :
    \/ Admit(w) \/ BodyFails(w) \/ Prepare(w) \/ CoreRoundtrip(w)
    \/ CoreUnavailable(w) \/ CoreAnswers(w)

-----------------------------------------------------------------------------
(* Every admission of handle_client is given back, whichever of its paths  *)
(* a request leaves by: a limiter counts just the workers that hold it.    *)
AdmissionsBalanced ==
    /\ runtimeLimiter.requests =
         Cardinality({w \in Workers : worker[w].pc # "accept" /\ worker[w].kind # "ingest"})
    /\ ingestLimiter.requests =
         Cardinality({w \in Workers : worker[w].pc # "accept" /\ worker[w].kind = "ingest"})
=============================================================================
