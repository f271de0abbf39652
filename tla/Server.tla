------------------------------- MODULE Server -------------------------------
(***************************************************************************)
(* The server side of the core daemon: an acceptor thread, reactor threads *)
(* that own the connections and run the callbacks of libevent, a search    *)
(* and a writer executor (the queues of WorkQueue), two limiters, and the  *)
(* main thread that stops them in turn.  Reactors and executors meet in    *)
(* the executors' queues, the limiters and the reactors' mailboxes.        *)
(*                                                                         *)
(* A connection carries one request at a time.  A job is a connection and  *)
(* the number of its request.                                              *)
(***************************************************************************)
EXTENDS Integers, Sequences, FiniteSetsExt, Limiter

CONSTANTS Conns,         \* connections, each accepted at most once
          NReactors,     \* reactor_threads
          MaxRequests,   \* bound: requests clients send in all
          SearchMax, SearchBytes,  \* max_inflight, max_inflight_bytes
          WriterMax, WriterBytes,  \* writer_queue_capacity + 1, and bytes
          MayStop,       \* whether the daemon is told to stop
          NoConn

(* A search is admitted when it is complete, an ingest before its body is  *)
(* read, and a health check, which has no body, needs no admission.        *)
Kinds == {"search", "ingest", "health"}

ASSUME ServerAssumption ==
    /\ NReactors \in Nat \ {0}
    /\ MaxRequests \in Nat
    /\ MayStop \in BOOLEAN
    /\ NoConn \notin Conns

VARIABLES conn,        \* connection_t, and its place in the system
          searchLimiter, writerLimiter,
          sPending, sRunning, sFinished, sDoor,      \* search executor
          wPending, wRunning, wFinished, wDoor,      \* writer executor
          posted,      \* jobs whose completion is in a mailbox, not notified
          mailbox, notified, stopping,               \* reactor_t
          doing, with, grabbed,                      \* where a reactor is
          acceptor, nextReactor,
          main

searchQueue == <<sPending, sRunning, sFinished, sDoor>>
writerQueue == <<wPending, wRunning, wFinished, wDoor>>
limiters    == <<searchLimiter, writerLimiter>>
loops       == <<doing, with, grabbed>>
vars == <<conn, limiters, searchQueue, writerQueue, posted,
          mailbox, notified, stopping, loops, acceptor, nextReactor, main>>

Reactors == 0..(NReactors - 1)
Jobs     == Conns \X (1..MaxRequests)
Bytes(k) == CASE k = "health" -> 0 [] k = "ingest" -> 2 [] OTHER -> 1
SearchLimit == [requests |-> SearchMax, bytes |-> SearchBytes]
WriterLimit == [requests |-> WriterMax, bytes |-> WriterBytes]

SQ == INSTANCE WorkQueue WITH Capacity <- SearchMax, MaxTake <- 1,
        pending <- sPending, running <- sRunning, finished <- sFinished, door <- sDoor
WQ == INSTANCE WorkQueue WITH Capacity <- WriterMax, MaxTake <- WriterMax,
        pending <- wPending, running <- wRunning, finished <- wFinished, door <- wDoor

NewConn == [state |-> "none", reactor |-> 0, bev |-> FALSE, head |-> FALSE,
            inflight |-> FALSE, abandoned |-> FALSE, pending |-> FALSE,
            close |-> FALSE, admitted |-> FALSE, kind |-> "health", number |-> 0]

Init ==
    /\ conn = [c \in Conns |-> NewConn]
    /\ searchLimiter = Free /\ writerLimiter = Free
    /\ sPending = <<>> /\ sRunning = {} /\ sFinished = {} /\ sDoor = "open"
    /\ wPending = <<>> /\ wRunning = {} /\ wFinished = {} /\ wDoor = "open"
    /\ posted = {}
    /\ mailbox = [r \in Reactors |-> <<>>]
    /\ notified = [r \in Reactors |-> FALSE]
    /\ stopping = [r \in Reactors |-> FALSE]
    /\ doing = [r \in Reactors |-> "loop"]
    /\ with = [r \in Reactors |-> NoConn]
    /\ grabbed = [r \in Reactors |-> <<>>]
    /\ acceptor = "poll" /\ nextReactor = 0
    /\ main = "serve"

-----------------------------------------------------------------------------
(* The reactor's helpers.  Several connections may go in one callback.     *)

(* free_connection: the connection's memory and its admission.             *)
Freed(c) == [NewConn EXCEPT !.state = "gone", !.reactor = conn[c].reactor,
                            !.number = conn[c].number]

ReleaseWriters(C) ==
    writerLimiter' = FoldSet(LAMBDA c, l : Released(l, Bytes(conn[c].kind)),
                             writerLimiter, {c \in C : conn[c].admitted})

(* Mutant of Abandoned: a connection is freed under its execution.         *)
AbandonedAtOnce(c) == Freed(c)

(* abandon_connection: an execution in flight keeps the connection_t.      *)
Abandoned(c) ==
    IF conn[c].inflight THEN [conn[c] EXCEPT !.bev = FALSE, !.abandoned = TRUE]
    ELSE Freed(c)

AbandonAll(C) ==
    /\ conn' = [c \in Conns |-> IF c \in C THEN Abandoned(c) ELSE conn[c]]
    /\ ReleaseWriters({c \in C : ~conn[c].inflight})

(* write_response                                                          *)
Responded(c, fatal) ==
    [c EXCEPT !.pending = TRUE, !.inflight = FALSE,
              !.close = @ \/ fatal \/ stopping[c.reactor]]

(* respond_error and respond_fatal_error: when the response cannot be      *)
(* built the connection is given up.                                       *)
Respond(c, now, fatal) ==
    \/ /\ conn' = [conn EXCEPT ![c] = Responded(now, fatal)]
       /\ UNCHANGED writerLimiter
    \/ AbandonAll({c})

(* The reactor of c is in its event loop.                                  *)
Looping(c) == conn[c].bev /\ doing[conn[c].reactor] = "loop"

Reading(c) == ~conn[c].inflight /\ ~conn[c].pending

-----------------------------------------------------------------------------
(* read_callback                                                           *)

(* The head of the next request has come, and perhaps all of it.  It may   *)
(* be malformed or too large; an ingest needs its admission now.  A fatal  *)
(* response closes the connection.                                         *)
ReadHead(c) ==
    LET r == conn[c].reactor
        told(k) == [conn[c] EXCEPT !.number = @ + 1, !.kind = k]
    IN  /\ Looping(c) /\ Reading(c)
        /\ ~conn[c].head
        /\ MapThenSumSet(LAMBDA d : conn[d].number, Conns) < MaxRequests
        /\ \E k \in Kinds :
              \/ Respond(c, told(k), TRUE) /\ UNCHANGED loops
              \/ \E last \in BOOLEAN, all \in (IF k = "health" THEN {TRUE} ELSE BOOLEAN) :
                    /\ k = "ingest" => Admits(writerLimiter, WriterLimit, Bytes(k))
                    /\ conn' = [conn EXCEPT ![c] = [told(k) EXCEPT !.head = TRUE, !.close = last,
                                                                   !.admitted = (k = "ingest")]]
                    /\ writerLimiter' = IF k = "ingest" THEN Acquired(writerLimiter, Bytes(k))
                                        ELSE writerLimiter
                    /\ doing' = [doing EXCEPT ![r] = IF all THEN "submit" ELSE @]
                    /\ with' = [with EXCEPT ![r] = IF all THEN c ELSE @]
                    /\ UNCHANGED grabbed
        /\ UNCHANGED <<searchLimiter, searchQueue, writerQueue, posted,
                       mailbox, notified, stopping, acceptor, nextReactor, main>>

(* The rest of the body has arrived.                                       *)
ReadBody(c) ==
    /\ Looping(c) /\ Reading(c)
    /\ conn[c].head
    /\ doing' = [doing EXCEPT ![conn[c].reactor] = "submit"]
    /\ with' = [with EXCEPT ![conn[c].reactor] = c]
    /\ UNCHANGED <<conn, limiters, searchQueue, writerQueue, posted,
                   mailbox, notified, stopping, grabbed, acceptor, nextReactor, main>>

(* submit_request up to the executor.  A request may be refused here for   *)
(* its target, method, type, length or credentials, for want of memory or  *)
(* of an admission; only a body that cannot be allocated is fatal.         *)
SubmitRequest(r) ==
    LET c == with[r]
        k == conn[c].kind
    IN  /\ doing[r] = "submit"
        /\ \/ /\ \E fatal \in (IF k = "health" THEN {FALSE} ELSE BOOLEAN) :
                    Respond(c, conn[c], fatal)
              /\ doing' = [doing EXCEPT ![r] = "loop"]
              /\ with' = [with EXCEPT ![r] = NoConn]
              /\ UNCHANGED searchLimiter
           \/ /\ k = "search" => Admits(searchLimiter, SearchLimit, Bytes(k))
              /\ searchLimiter' = IF k = "search" THEN Acquired(searchLimiter, Bytes(k))
                                  ELSE searchLimiter
              /\ conn' = [conn EXCEPT ![c].inflight = TRUE]
              /\ doing' = [doing EXCEPT ![r] = "offer"]
              /\ UNCHANGED <<writerLimiter, with>>
        /\ UNCHANGED <<searchQueue, writerQueue, posted, mailbox, notified,
                       stopping, grabbed, acceptor, nextReactor, main>>

(* A submission that fails gives its admission back.                       *)
Undone(k) == IF k = "search" THEN Released(searchLimiter, Bytes(k)) ELSE searchLimiter

(* Mutant of Taken: the admission of an ingest ends when it is queued.     *)
TakenEarly(c) ==
    /\ conn' = [conn EXCEPT ![c].admitted = FALSE]
    /\ ReleaseWriters({c})

(* The admission stays with a connection whose job is queued.              *)
Taken(c) == UNCHANGED <<conn, writerLimiter>>

(* The executor takes the job, or it is full or closing.                   *)
OfferJob(r) ==
    LET c == with[r]
        k == conn[c].kind
        j == <<c, conn[c].number>>
    IN  /\ doing[r] = "offer"
        /\ \/ /\ IF k = "ingest" THEN WQ!Offer(j) /\ UNCHANGED searchQueue
                                ELSE SQ!Offer(j) /\ UNCHANGED writerQueue
              /\ Taken(c)
              /\ UNCHANGED searchLimiter
           \/ /\ IF k = "ingest" THEN wDoor # "open" \/ Len(wPending) = WriterMax
                                ELSE sDoor # "open" \/ Len(sPending) = SearchMax
              /\ searchLimiter' = Undone(k)
              /\ \/ /\ conn' = [conn EXCEPT ![c] = Responded(conn[c], FALSE)]
                    /\ UNCHANGED writerLimiter
                 \/ /\ conn' = [conn EXCEPT ![c] = Freed(c)]
                    /\ ReleaseWriters({c})
              /\ UNCHANGED <<searchQueue, writerQueue>>
        /\ doing' = [doing EXCEPT ![r] = "loop"]
        /\ with' = [with EXCEPT ![r] = NoConn]
        /\ UNCHANGED <<posted, mailbox, notified, stopping, grabbed,
                       acceptor, nextReactor, main>>

-----------------------------------------------------------------------------
(* write_callback: the response has left; the next request may come.       *)

(* The request fields of a connection that waits for its next request.     *)
Fresh(c) == [conn[c] EXCEPT !.head = FALSE, !.pending = FALSE, !.close = FALSE,
                            !.admitted = FALSE, !.kind = "health"]

(* Mutant of Reset: the admission outlives its request.                    *)
ResetKept(c) == /\ conn' = [conn EXCEPT ![c] = Fresh(c)]
                /\ UNCHANGED writerLimiter

(* reset_connection_request                                                *)
Reset(c) == /\ conn' = [conn EXCEPT ![c] = Fresh(c)]
            /\ ReleaseWriters({c})

WriteCallback(c) ==
    /\ Looping(c)
    /\ conn[c].pending
    /\ IF conn[c].close THEN AbandonAll({c}) ELSE Reset(c)
    /\ UNCHANGED <<searchLimiter, searchQueue, writerQueue, posted, mailbox, notified,
                   stopping, loops, acceptor, nextReactor, main>>

(* event_callback: the client has shut its end.  While a request is in     *)
(* flight or its response is being written this only marks the connection. *)
EventEof(c) ==
    /\ Looping(c)
    /\ IF Reading(c) THEN AbandonAll({c})
       ELSE /\ conn' = [conn EXCEPT ![c].close = TRUE]
            /\ UNCHANGED writerLimiter
    /\ UNCHANGED <<searchLimiter, searchQueue, writerQueue, posted, mailbox,
                   notified, stopping, loops, acceptor, nextReactor, main>>

(* event_callback: an error or a timeout, of reading or of writing.  There *)
(* is neither while the request is in flight.                              *)
EventTimeout(c) ==
    /\ Looping(c)
    /\ ~conn[c].inflight
    /\ AbandonAll({c})
    /\ UNCHANGED <<searchLimiter, searchQueue, writerQueue, posted, mailbox,
                   notified, stopping, loops, acceptor, nextReactor, main>>

-----------------------------------------------------------------------------
(* The executors' threads: run_execution and execute_ingest_batch.         *)

SearchTake ==
    /\ SQ!Take(1)
    /\ UNCHANGED <<conn, limiters, writerQueue, posted, mailbox, notified,
                   stopping, loops, acceptor, nextReactor, main>>

WriterTake(n) ==
    /\ WQ!Take(n)
    /\ UNCHANGED <<conn, limiters, searchQueue, posted, mailbox, notified,
                   stopping, loops, acceptor, nextReactor, main>>

(* enqueue_message: the completion goes to the mailbox, then a byte to the *)
(* notification socket.                                                    *)
PostCompletion(j) ==
    LET r == conn[j[1]].reactor
    IN  /\ j \in (sRunning \cup wRunning) \ posted
        /\ mailbox' = [mailbox EXCEPT ![r] = Append(@, [type |-> "complete", job |-> j])]
        /\ posted' = posted \cup {j}
        /\ UNCHANGED <<conn, limiters, searchQueue, writerQueue, notified,
                       stopping, loops, acceptor, nextReactor, main>>

NotifyCompletion(j) ==
    /\ j \in posted
    /\ notified' = [notified EXCEPT ![conn[j[1]].reactor] = TRUE]
    /\ posted' = posted \ {j}
    /\ IF j \in sRunning THEN SQ!Finish({j}) /\ UNCHANGED writerQueue
                         ELSE WQ!Finish({j}) /\ UNCHANGED searchQueue
    /\ UNCHANGED <<conn, limiters, mailbox, stopping, loops, acceptor,
                   nextReactor, main>>

-----------------------------------------------------------------------------
(* run_acceptor                                                            *)

(* A connection is accepted for the next reactor in turn.                  *)
Accept(c) ==
    /\ acceptor = "poll"
    /\ conn[c].state = "none"
    /\ conn' = [conn EXCEPT ![c].state = "mail", ![c].reactor = nextReactor]
    /\ mailbox' = [mailbox EXCEPT ![nextReactor] = Append(@, [type |-> "accept", conn |-> c])]
    /\ acceptor' = "notify"
    /\ UNCHANGED <<limiters, searchQueue, writerQueue, posted, notified,
                   stopping, loops, nextReactor, main>>

AcceptNotify ==
    /\ acceptor = "notify"
    /\ notified' = [notified EXCEPT ![nextReactor] = TRUE]
    /\ nextReactor' = (nextReactor + 1) % NReactors
    /\ acceptor' = "poll"
    /\ UNCHANGED <<conn, limiters, searchQueue, writerQueue, posted, mailbox,
                   stopping, loops, main>>

AcceptorExit ==
    /\ acceptor = "poll"
    /\ main = "stop_accepting"
    /\ acceptor' = "exit"
    /\ UNCHANGED <<conn, limiters, searchQueue, writerQueue, posted, mailbox,
                   notified, stopping, loops, nextReactor, main>>

-----------------------------------------------------------------------------
(* notification_callback                                                   *)

callbackOnly == UNCHANGED <<conn, limiters, searchQueue, writerQueue, posted,
                       stopping, with, acceptor, nextReactor, main>>

(* Mutant of NotificationCallback: the mailbox is emptied before the       *)
(* notification socket.                                                    *)
NotificationCallbackSwapped(r) ==
    \/ /\ doing[r] = "loop" /\ notified[r]
       /\ grabbed' = [grabbed EXCEPT ![r] = mailbox[r]]
       /\ mailbox' = [mailbox EXCEPT ![r] = <<>>]
       /\ doing' = [doing EXCEPT ![r] = "grab"]
       /\ UNCHANGED notified
       /\ callbackOnly
    \/ /\ doing[r] = "grab"
       /\ notified' = [notified EXCEPT ![r] = FALSE]
       /\ doing' = [doing EXCEPT ![r] = "drain"]
       /\ UNCHANGED <<mailbox, grabbed>>
       /\ callbackOnly

(* The bytes are read, then the messages taken out of the mailbox.         *)
NotificationCallback(r) ==
    \/ /\ doing[r] = "loop" /\ notified[r]
       /\ notified' = [notified EXCEPT ![r] = FALSE]
       /\ doing' = [doing EXCEPT ![r] = "grab"]
       /\ UNCHANGED <<mailbox, grabbed>>
       /\ callbackOnly
    \/ /\ doing[r] = "grab"
       /\ grabbed' = [grabbed EXCEPT ![r] = mailbox[r]]
       /\ mailbox' = [mailbox EXCEPT ![r] = <<>>]
       /\ doing' = [doing EXCEPT ![r] = "drain"]
       /\ UNCHANGED notified
       /\ callbackOnly

(* add_connection: closed when the reactor stops or memory is short.       *)
AddConnection(r) ==
    LET m == Head(grabbed[r])
    IN  /\ doing[r] = "drain" /\ grabbed[r] # <<>>
        /\ m.type = "accept"
        /\ \/ /\ ~stopping[r]
              /\ conn' = [conn EXCEPT ![m.conn].state = "live", ![m.conn].bev = TRUE]
           \/ conn' = [conn EXCEPT ![m.conn].state = "gone"]
        /\ grabbed' = [grabbed EXCEPT ![r] = Tail(@)]
        /\ UNCHANGED <<limiters, searchQueue, writerQueue, posted, mailbox, notified,
                       stopping, doing, with, acceptor, nextReactor, main>>

CompletionRelease(c) ==
    IF conn[c].kind = "search"
    THEN searchLimiter' = Released(searchLimiter, Bytes(conn[c].kind))
    ELSE UNCHANGED searchLimiter

(* complete_execution: the response is written unless the connection was   *)
(* abandoned, the job failed or the response cannot be written.            *)
CompleteExecution(r) ==
    LET m == Head(grabbed[r])
        c == m.job[1]
    IN  /\ doing[r] = "drain" /\ grabbed[r] # <<>>
        /\ m.type = "complete"
        /\ CompletionRelease(c)
        /\ \/ /\ conn[c].bev
              /\ conn' = [conn EXCEPT ![c] = Responded(conn[c], FALSE)]
              /\ UNCHANGED writerLimiter
           \/ /\ conn' = [conn EXCEPT ![c] = Freed(c)]
              /\ ReleaseWriters({c})
        /\ grabbed' = [grabbed EXCEPT ![r] = Tail(@)]
        /\ UNCHANGED <<searchQueue, writerQueue, posted, mailbox, notified,
                       stopping, doing, with, acceptor, nextReactor, main>>

(* After the last message: a reactor that stops drops its connections.     *)
DrainDone(r) ==
    LET mine == {c \in Conns : conn[c].state = "live" /\ conn[c].reactor = r}
    IN  /\ doing[r] = "drain" /\ grabbed[r] = <<>>
        /\ IF stopping[r]
           THEN /\ AbandonAll(mine)
                /\ doing' = [doing EXCEPT ![r] = "exit"]
           ELSE /\ doing' = [doing EXCEPT ![r] = "loop"]
                /\ UNCHANGED <<conn, writerLimiter>>
        /\ UNCHANGED <<searchLimiter, searchQueue, writerQueue, posted, mailbox,
                       notified, stopping, with, grabbed, acceptor, nextReactor, main>>

-----------------------------------------------------------------------------
(* The main thread: a signal, then the parts in this order.                *)

mainOnly == UNCHANGED <<conn, limiters, posted, mailbox, loops, acceptor,
                        nextReactor>>

StopAccepting ==
    /\ MayStop
    /\ main = "serve"
    /\ main' = "stop_accepting"
    /\ UNCHANGED <<searchQueue, writerQueue, notified, stopping>>
    /\ mainOnly

(* The reloader and the maintenance thread are joined; they leave after    *)
(* the round they are in, which takes as long as this step waits.          *)
JoinBackground ==
    /\ main = "stop_accepting" /\ acceptor = "exit"
    /\ main' = "background_joined"
    /\ UNCHANGED <<searchQueue, writerQueue, notified, stopping>>
    /\ mainOnly

(* executor_close of the writer, then of the search executor; each returns *)
(* when its queue is empty and its threads are joined.                     *)
CloseWriter ==
    /\ \/ main = "background_joined" /\ WQ!Close /\ main' = "close_writer"
       \/ main = "close_writer" /\ WQ!Closed /\ main' = "writer_closed"
    /\ UNCHANGED <<searchQueue, notified, stopping>>
    /\ mainOnly

CloseSearch ==
    /\ \/ main = "writer_closed" /\ SQ!Close /\ main' = "close_search"
       \/ main = "close_search" /\ SQ!Closed /\ main' = "stop_reactors"
    /\ UNCHANGED <<writerQueue, notified, stopping>>
    /\ mainOnly

(* Mutant of StopReactor: the reactor is not woken.                        *)
StopReactorSilently(r) ==
    /\ main = "stop_reactors"
    /\ ~stopping[r]
    /\ \A q \in 0..(r - 1) : doing[q] = "joined"
    /\ stopping' = [stopping EXCEPT ![r] = TRUE]
    /\ UNCHANGED <<searchQueue, writerQueue, notified, main>>
    /\ mainOnly

(* stop_reactor, one reactor after the other.                              *)
StopReactor(r) ==
    /\ main = "stop_reactors"
    /\ ~stopping[r]
    /\ \A q \in 0..(r - 1) : doing[q] = "joined"
    /\ stopping' = [stopping EXCEPT ![r] = TRUE]
    /\ notified' = [notified EXCEPT ![r] = TRUE]
    /\ UNCHANGED <<searchQueue, writerQueue, main>>
    /\ mainOnly

(* The reactor is joined; messages left in its mailbox are freed.          *)
JoinReactor(r) ==
    /\ doing[r] = "exit"
    /\ doing' = [doing EXCEPT ![r] = "joined"]
    /\ mailbox' = [mailbox EXCEPT ![r] = <<>>]
    /\ main' = IF r = NReactors - 1 THEN "stopped" ELSE main
    /\ conn' = [c \in Conns |-> IF \E i \in 1..Len(mailbox[r]) :
                                     mailbox[r][i] = [type |-> "accept", conn |-> c]
                                THEN [conn[c] EXCEPT !.state = "gone"] ELSE conn[c]]
    /\ UNCHANGED <<limiters, searchQueue, writerQueue, posted, notified,
                   stopping, with, grabbed, acceptor, nextReactor>>

(* The daemon has ended, or every client is done and none comes.           *)
Quiet ==
    /\ main = "stopped" \/ (~MayStop /\ \A c \in Conns : conn[c].state = "gone")
    /\ UNCHANGED vars

ConnCallback(c) == ReadHead(c) \/ ReadBody(c) \/ WriteCallback(c) \/ EventEof(c)

ReactorStep(r) ==
    \/ SubmitRequest(r) \/ OfferJob(r)
    \/ NotificationCallback(r) \/ AddConnection(r) \/ CompleteExecution(r) \/ DrainDone(r)

WorkerStep ==
    \/ SearchTake
    \/ \E n \in 1..WriterMax : WriterTake(n)
    \/ \E j \in Jobs : PostCompletion(j) \/ NotifyCompletion(j)

MainStep ==
    \/ JoinBackground \/ CloseWriter \/ CloseSearch
    \/ \E r \in Reactors : StopReactor(r) \/ JoinReactor(r)

Next ==
    \/ \E c \in Conns : ConnCallback(c) \/ EventTimeout(c) \/ Accept(c)
    \/ \E r \in Reactors : ReactorStep(r)
    \/ WorkerStep
    \/ AcceptNotify \/ AcceptorExit
    \/ StopAccepting \/ MainStep
    \/ Quiet

Spec == Init /\ [][Next]_vars

(* The threads run, jobs end, and a connection nothing happens on times    *)
(* out.  Clients owe nothing, and nobody need stop the daemon.             *)
FairSpec ==
    /\ Spec
    /\ \A r \in Reactors : WF_vars(ReactorStep(r))
    /\ \A c \in Conns : WF_vars(EventTimeout(c))
    /\ WF_vars(WorkerStep)
    /\ WF_vars(AcceptNotify \/ AcceptorExit) /\ WF_vars(MainStep)

-----------------------------------------------------------------------------
(* Properties.                                                             *)

SeqRange(s) == {s[i] : i \in 1..Len(s)}

(* Jobs not yet answered to their reactor, and completions on their way.   *)
Waiting == SeqRange(sPending) \cup SeqRange(wPending) \cup ((sRunning \cup wRunning) \ posted)

Mail(r) == grabbed[r] \o mailbox[r]

Completions(c) ==
    {<<r, i>> \in Reactors \X (1..(2 * Cardinality(Conns))) :
        /\ i <= Len(Mail(r))
        /\ Mail(r)[i].type = "complete"
        /\ Mail(r)[i].job[1] = c}

(* The type of every variable.                                             *)
TypeOK ==
    /\ \A c \in Conns :
          /\ conn[c].state \in {"none", "mail", "live", "gone"}
          /\ conn[c].reactor \in Reactors
          /\ conn[c].kind \in Kinds
          /\ conn[c].number \in 0..MaxRequests
          /\ conn[c].bev => conn[c].state = "live"
    /\ searchLimiter.requests \in 0..SearchMax /\ searchLimiter.bytes \in 0..SearchBytes
    /\ writerLimiter.requests \in 0..WriterMax /\ writerLimiter.bytes \in 0..WriterBytes
    /\ posted \subseteq sRunning \cup wRunning
    /\ with \in [Reactors -> Conns \cup {NoConn}]
    /\ \A r \in Reactors : (with[r] # NoConn) <=> doing[r] \in {"submit", "offer"}

(* While a job is queued, running or on its way back, the connection_t it  *)
(* points to is there and waits for it, and for it alone: no callback      *)
(* frees a connection under a worker or completes it twice.                *)
CompletionSafe ==
    /\ \A j \in Waiting : conn[j[1]].state = "live" /\ conn[j[1]].inflight
                         /\ conn[j[1]].number = j[2] /\ Completions(j[1]) = {}
    /\ \A c \in Conns :
          Completions(c) # {} => /\ conn[c].state = "live" /\ conn[c].inflight
                                 /\ Cardinality(Completions(c)) = 1

(* The limiters count exactly the searches that hold an admission and the  *)
(* connections that hold one for an ingest, on every path a request ends.  *)
LimitersBalanced ==
    LET searching == {c \in Conns : conn[c].inflight /\ conn[c].kind = "search"}
        writing   == {c \in Conns : conn[c].admitted}
        total(C)  == MapThenSumSet(LAMBDA c : Bytes(conn[c].kind), C)
    IN  /\ searchLimiter = [requests |-> Cardinality(searching), bytes |-> total(searching)]
        /\ writerLimiter = [requests |-> Cardinality(writing), bytes |-> total(writing)]

(* An ingest that was admitted is not turned away by a full writer queue:  *)
(* the admission is held from the head of the request to its response.     *)
WriterHasRoom ==
    \A r \in Reactors :
        doing[r] = "offer" /\ conn[with[r]].kind = "ingest" /\ wDoor = "open"
            => Len(wPending) < WriterMax

(* A request in flight comes back to its reactor, and an admission is      *)
(* given back, even when the client is silent or gone.                     *)
RequestsEnd ==
    \A c \in Conns :
        conn[c].inflight \/ conn[c].admitted
            ~> (~conn[c].inflight /\ ~conn[c].admitted) \/ main = "stopped"

(* Told to stop, the daemon ends, whatever the clients do.                 *)
StopReturns == main = "stop_accepting" ~> main = "stopped"
=============================================================================
