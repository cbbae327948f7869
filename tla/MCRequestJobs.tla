---------------------------- MODULE MCRequestJobs ----------------------------
(***************************************************************************)
(* A small instance of RequestJobs: one negotiation of the schedule and    *)
(* one request of a person, one scheduled worker and one handler of posts. *)
(***************************************************************************)
EXTENDS RequestJobs

CONSTANTS n1, r1, w1, i1

TwoJobs == {n1, r1}
TheRequest == {r1}
TwoWorkers == {w1, i1}
TheHandler == {i1}
=============================================================================
