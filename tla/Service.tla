------------------------------ MODULE Service -------------------------------
(***************************************************************************)
(* Front and core together: front workers call the core, whose searchers,  *)
(* writer, reloader and maintenance thread work on an index that other     *)
(* processes change as well.                                               *)
(***************************************************************************)
EXTENDS Runtime, Front

serviceVars == <<call, vars, frontVars>>

ServiceInit == Init /\ FrontInit

ServiceNext ==
    \/ CoreNext /\ UNCHANGED frontVars
    \/ FrontNext /\ UNCHANGED vars

ServiceSpec == ServiceInit /\ [][ServiceNext]_serviceVars

(* A thread that no lock stops goes on; update_lock is passed on to the    *)
(* threads that keep asking for it; the reloader and the maintenance       *)
(* thread come back for ever.  Nothing is asked of the front, of clients   *)
(* or of other processes, except that a compaction finishes its deletions. *)
GoOn == Searches \/ Writing \/ Replacing \/ RemoveDirs

Fairness ==
    /\ WF_serviceVars(GoOn /\ UNCHANGED frontVars)
    /\ SF_serviceVars(WriterStart /\ UNCHANGED frontVars)
    /\ SF_serviceVars(ReloaderStart /\ UNCHANGED frontVars)
    /\ SF_serviceVars((MaintenanceStart \/ Maintaining) /\ UNCHANGED frontVars)

FairSpec == ServiceSpec /\ Fairness

-----------------------------------------------------------------------------
(* Type invariant of the composition, the front's admission counts         *)
(* included.                                                               *)
TypeOK ==
    /\ RuntimeTypeOK
    /\ AdmissionsBalanced
    /\ \A w \in Workers : worker[w].call \in {0} \cup CallIds
    /\ acked \in 0..MaxGen

(* Read your writes across both daemons: once a client was told that an    *)
(* ingest succeeded, every search sent to the core afterwards runs on a    *)
(* runtime at least as new as the generation that carries the ingest.      *)
ReadYourWrites ==
    \A n \in CallIds :
      call[n].kind = "search" /\ call[n].stage = "done" => call[n].gen >= call[n].after
=============================================================================
