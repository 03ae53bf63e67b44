----------------------------- MODULE MCIOTimer -----------------------------
(* Model-checking instance of IOTimer: worker threads and Timer objects as *)
(* model values, heap addresses as small naturals.                         *)
EXTENDS IOTimer

CONSTANTS w1, w2, t1, t2

MCWorkers1 == {w1}
MCWorkers2 == {w1, w2}
MCTimers   == {t1, t2}
=============================================================================
