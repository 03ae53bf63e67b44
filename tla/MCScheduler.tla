---------------------------- MODULE MCScheduler ----------------------------
(* Model-checking instance of Scheduler: two worker threads, two closures  *)
(* and the cb fiber ids run() may allocate for them.  A closure's fiber    *)
(* that yields READY comes back as a fiber entry, so both kinds of entry   *)
(* of m_fibers are exercised.                                              *)
EXTENDS Scheduler

CONSTANTS w1, w2, c1, c2, cf1, cf2, f1

MCWorkers   == {w1, w2}
MCCbJobs    == {c1, c2}
MCCbFibers  == {cf1, cf2}
MCWorkers1  == {w1}
MCFiberJobs == {f1}
MCCbJobs1   == {c1}
MCCbFibers1 == {cf1}
=============================================================================
