---------------------------- MODULE ExecutionPool ----------------------------
(***************************************************************************)
(* What leases and slots are for, without the bucket: workers take up runs  *)
(* at a fixed number of seats.  A job joins a worker, a run and a seat none *)
(* of which has another job; jobs end one by one or, when a daemon dies,    *)
(* together.                                                                *)
(***************************************************************************)
CONSTANTS Workers, Runs, Seats

VARIABLE jobs

Job == [worker : Workers, run : Runs, seat : Seats]

Init == jobs = {}

TakeUp(j) ==
  /\ \A k \in jobs : k.worker # j.worker /\ k.run # j.run /\ k.seat # j.seat
  /\ jobs' = jobs \cup {j}

Leave(gone) == jobs' = jobs \ gone

Next == \/ \E j \in Job : TakeUp(j)
        \/ \E gone \in SUBSET jobs : Leave(gone)

Spec == Init /\ [][Next]_jobs
=============================================================================
