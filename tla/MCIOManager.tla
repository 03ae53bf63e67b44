---------------------------- MODULE MCIOManager ----------------------------
(* Model-checking instance of IOManager: worker threads, closures, the cb  *)
(* fiber ids run() may allocate for them, and socket fds.  A closure that  *)
(* waits on an fd parks its cb fiber in the FdContext slot, so fiber and   *)
(* closure entries both reach m_fibers; a closure may also register        *)
(* another closure as an event callback.                                   *)
EXTENDS IOManager

CONSTANTS w1, w2, c1, c2, cf1, cf2, fd1, fd2

MCWorkers1  == {w1}
MCWorkers2  == {w1, w2}
MCCbJobs    == {c1, c2}
MCCbFibers  == {cf1, cf2}
MCFds1      == {fd1}
MCFds2      == {fd1, fd2}
=============================================================================
