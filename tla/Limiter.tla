------------------------------ MODULE Limiter -------------------------------
(***************************************************************************)
(* The admission limiter of both daemons: a number of requests and of body *)
(* bytes in flight, each with a maximum, under one mutex.                  *)
(***************************************************************************)
EXTENDS Naturals

(* YAP_V2_runtime_limiter_init                                             *)
Free == [requests |-> 0, bytes |-> 0]

(* Mutant of Admits: one request too many.                                 *)
AdmitsOffByOne(l, max, b) == b > 0 /\ l.requests <= max.requests /\ b <= max.bytes

Admits(l, max, b) ==
    /\ b > 0
    /\ l.requests < max.requests
    /\ b <= max.bytes - l.bytes

Acquired(l, b) == [requests |-> l.requests + 1, bytes |-> l.bytes + b]

(* A release the limiter cannot have granted is ignored.                   *)
Released(l, b) ==
    IF l.requests > 0 /\ b <= l.bytes
    THEN [requests |-> l.requests - 1, bytes |-> l.bytes - b]
    ELSE l
=============================================================================
